---- MODULE Spec2Model ----
(***************************************************************************)
(* TLA+ model of the torrent-title parser (Go engine src/ptt.go with its    *)
(* rule table src/unnamed/part_000, normalizer src/normalizer.go, and the  *)
(* Kotlin port).                                                            *)
(*                                                                         *)
(* Strings are sequences of one-character strings; offsets are 0-based as  *)
(* in the source, so s[a:b] of the source is Sub(s, a, b) here.            *)
(***************************************************************************)
EXTENDS Integers, Sequences, FiniteSets, TLC

(***************************************************************************)
(* Strings                                                                 *)
(***************************************************************************)

\* s[a:b]
Sub(s, a, b) == SubSeq(s, a + 1, b)

\* s[a:]
From(s, a) == SubSeq(s, a + 1, Len(s))

Digit == {"0", "1", "2", "3", "4", "5", "6", "7", "8", "9"}

LowerAZ == {"a", "b", "c", "d", "e", "f", "g", "h", "i", "j", "k", "l", "m",
            "n", "o", "p", "q", "r", "s", "t", "u", "v", "w", "x", "y", "z"}

UpperAZ == {"A", "B", "C", "D", "E", "F", "G", "H", "I", "J", "K", "L", "M",
            "N", "O", "P", "Q", "R", "S", "T", "U", "V", "W", "X", "Y", "Z"}

\* \w of the regexp package (ASCII only)
WordCh == Digit \cup LowerAZ \cup UpperAZ \cup {"_"}

\* \s of the regexp package; the model's titles hold the blank and the tab
SpaceCh == {" ", "\t"}

\* \p{Hiragana}\p{Katakana}\p{Han}\p{Cyrillic}: one representative, the
\* Cyrillic letter written "<ya>"
Cyrillic == {"<ya>"}

NonEnglish == Cyrillic

LowerOf == [c \in UpperAZ |->
    CASE c = "A" -> "a" [] c = "B" -> "b" [] c = "C" -> "c" [] c = "D" -> "d"
      [] c = "E" -> "e" [] c = "F" -> "f" [] c = "G" -> "g" [] c = "H" -> "h"
      [] c = "I" -> "i" [] c = "J" -> "j" [] c = "K" -> "k" [] c = "L" -> "l"
      [] c = "M" -> "m" [] c = "N" -> "n" [] c = "O" -> "o" [] c = "P" -> "p"
      [] c = "Q" -> "q" [] c = "R" -> "r" [] c = "S" -> "s" [] c = "T" -> "t"
      [] c = "U" -> "u" [] c = "V" -> "v" [] c = "W" -> "w" [] c = "X" -> "x"
      [] c = "Y" -> "y" [] c = "Z" -> "z"]

UpperOf == [c \in LowerAZ |-> CHOOSE u \in UpperAZ : LowerOf[u] = c]

\* strings.ToLower / strings.ToUpper
ToLower(s) == [i \in 1..Len(s) |-> IF s[i] \in UpperAZ THEN LowerOf[s[i]] ELSE s[i]]

ToUpper(s) == [i \in 1..Len(s) |-> IF s[i] \in LowerAZ THEN UpperOf[s[i]] ELSE s[i]]

\* both cases of a set of characters: a class under the (?i) flag
Fold(S) == S \cup {LowerOf[c] : c \in S \cap UpperAZ} \cup {UpperOf[c] : c \in S \cap LowerAZ}

(***************************************************************************)
(* Regular expressions: the syntax trees of the source's patterns and a    *)
(* backtracking matcher with the regexp package's leftmost-first result.   *)
(***************************************************************************)

\* a character of the set S
Set(S) == [t |-> "set", s |-> S]

\* a character not in the set S ("." is NSet({}))
NSet(S) == [t |-> "nset", s |-> S]

AnyCh == NSet({"\n"})

\* the literal string cs
Lit(cs) == [t |-> "lit", cs |-> cs, ci |-> FALSE]

\* the literal string cs (given in lower case) under (?i)
LitI(cs) == [t |-> "lit", cs |-> cs, ci |-> TRUE]

Cat(xs) == [t |-> "cat", xs |-> xs]

Alt(xs) == [t |-> "alt", xs |-> xs]

\* x{lo,hi}, greedy; hi = -1 stands for no upper limit, x{lo,}
Rep(x, lo, hi) == [t |-> "rep", x |-> x, lo |-> lo, hi |-> hi, greedy |-> TRUE]

\* x{lo,hi}?, lazy
RepLazy(x, lo, hi) == [t |-> "rep", x |-> x, lo |-> lo, hi |-> hi, greedy |-> FALSE]

Opt(x) == Rep(x, 0, 1)

Star(x) == Rep(x, 0, -1)

Plus(x) == Rep(x, 1, -1)

\* capture group g
Grp(g, x) == [t |-> "grp", g |-> g, x |-> x]

Bol == [t |-> "bol"]

Eol == [t |-> "eol"]

\* \b
WordB == [t |-> "wb"]

\* \B
NotWordB == [t |-> "nwb"]

\* a pattern: its syntax tree and its number of capture groups
Re(ng, n) == [ng |-> ng, n |-> n]

IsWordAt(s, i) == i >= 0 /\ i < Len(s) /\ s[i + 1] \in WordCh

LitAt(s, i, n) ==
    /\ i + Len(n.cs) <= Len(s)
    /\ \A j \in 1..Len(n.cs) :
         IF n.ci THEN ToLower(<<s[i + j]>>) = <<n.cs[j]>> ELSE s[i + j] = n.cs[j]

\* the character at offset i + j of s is one the one-character node x takes
Takes(x, s, i, j) ==
    IF x.t = "set" THEN s[i + j] \in x.s ELSE s[i + j] \notin x.s

\* how many characters of s from offset i on the one-character node x takes
\* in a row, at most cap
RunLen(x, s, i, cap) ==
    LET stop == {j \in 1..cap : ~Takes(x, s, i, j)}
    IN IF stop = {} THEN cap
       ELSE (CHOOSE j \in stop : \A j2 \in stop : j <= j2) - 1

\* the match a when there is one, else the match b
FirstMatch(a, b) == IF Len(a) > 0 THEN a ELSE b

RECURSIVE M(_, _, _, _)
RECURSIVE Down(_, _, _, _, _, _)
RECURSIVE Up(_, _, _, _, _, _)

\* a greedy repetition of a one-character node: the first match of the rest
\* r after n, n - 1, ..., lo characters
Down(r, s, i, caps, n, lo) ==
    FirstMatch(M(r, s, i + n, caps),
               IF n <= lo THEN <<>> ELSE Down(r, s, i, caps, n - 1, lo))

\* a lazy repetition of a one-character node: the first match of the rest r
\* after n, n + 1, ..., hi characters
Up(r, s, i, caps, n, hi) ==
    FirstMatch(M(r, s, i + n, caps),
               IF n >= hi THEN <<>> ELSE Up(r, s, i, caps, n + 1, hi))

\* match the node sequence k (the rest of the pattern) against s from offset
\* i; the capture offsets of the first successful path, or <<>>
M(k, s, i, caps) ==
    IF Len(k) = 0 THEN [caps EXCEPT ![2] = i]
    ELSE LET n == Head(k)
             r == Tail(k)
         IN CASE n.t = "set" ->
                   IF i < Len(s) /\ s[i + 1] \in n.s THEN M(r, s, i + 1, caps) ELSE <<>>
              [] n.t = "nset" ->
                   IF i < Len(s) /\ s[i + 1] \notin n.s THEN M(r, s, i + 1, caps) ELSE <<>>
              [] n.t = "lit" ->
                   IF LitAt(s, i, n) THEN M(r, s, i + Len(n.cs), caps) ELSE <<>>
              [] n.t = "cat" -> M(n.xs \o r, s, i, caps)
              [] n.t = "alt" ->
                   IF Len(n.xs) = 0 THEN <<>>
                   ELSE FirstMatch(M(<<Head(n.xs)>> \o r, s, i, caps),
                                   M(<<Alt(Tail(n.xs))>> \o r, s, i, caps))
              [] n.t = "rep" /\ n.x.t \in {"set", "nset"} ->
                   LET room == Len(s) - i
                       run == RunLen(n.x, s, i,
                                     IF n.hi < 0 \/ n.hi > room THEN room ELSE n.hi)
                   IN IF run < n.lo THEN <<>>
                      ELSE IF n.greedy THEN Down(r, s, i, caps, run, n.lo)
                      ELSE Up(r, s, i, caps, n.lo, run)
              [] n.t = "rep" /\ n.x.t \notin {"set", "nset"} ->
                   LET less == [n EXCEPT !.lo = IF @ > 0 THEN @ - 1 ELSE 0,
                                         !.hi = IF @ < 0 THEN @ ELSE @ - 1]
                       more == M(<<n.x, [t |-> "adv", at |-> i, opt |-> n.lo = 0], less>> \o r,
                                 s, i, caps)
                   IN IF n.lo > 0 THEN more
                      ELSE IF n.hi = 0 THEN M(r, s, i, caps)
                      ELSE IF n.greedy
                           THEN FirstMatch(more, M(r, s, i, caps))
                           ELSE FirstMatch(M(r, s, i, caps), more)
              [] n.t = "adv" ->
                   \* an optional iteration that matched the empty string ends the loop
                   IF n.opt /\ i = n.at THEN <<>> ELSE M(r, s, i, caps)
              [] n.t = "grp" ->
                   M(<<[t |-> "open", g |-> n.g], n.x, [t |-> "close", g |-> n.g]>> \o r,
                     s, i, caps)
              [] n.t = "open" -> M(r, s, i, [caps EXCEPT ![2 * n.g + 1] = i])
              [] n.t = "close" -> M(r, s, i, [caps EXCEPT ![2 * n.g + 2] = i])
              [] n.t = "bol" -> IF i = 0 THEN M(r, s, i, caps) ELSE <<>>
              [] n.t = "eol" -> IF i = Len(s) THEN M(r, s, i, caps) ELSE <<>>
              [] n.t = "wb" ->
                   IF IsWordAt(s, i - 1) # IsWordAt(s, i) THEN M(r, s, i, caps) ELSE <<>>
              [] n.t = "nwb" ->
                   IF IsWordAt(s, i - 1) = IsWordAt(s, i) THEN M(r, s, i, caps) ELSE <<>>

MatchAt(re, s, i) ==
    M(<<re.n>>, s, i, [j \in 1..(2 * re.ng + 2) |-> IF j = 1 THEN i ELSE -1])

RECURSIVE FindFrom(_, _, _)
FindFrom(re, s, i) ==
    IF i > Len(s) THEN <<>>
    ELSE FirstMatch(MatchAt(re, s, i), FindFrom(re, s, i + 1))

\* Regexp.FindStringSubmatchIndex: <<>> or the offsets <<s0, e0, s1, e1, ...>>
\* of the leftmost match and of its groups (-1, -1 for a group not taken)
FindStringSubmatchIndex(re, s) == FindFrom(re, s, 0)

\* Regexp.MatchString
MatchString(re, s) == Len(FindFrom(re, s, 0)) > 0

\* the text of s the match c covers, "" for no match
MatchText(s, c) == IF Len(c) = 0 THEN <<>> ELSE Sub(s, c[1], c[2])

\* Regexp.FindString
FindString(re, s) == MatchText(s, FindFrom(re, s, 0))

\* one replacement template item: "$1" stands for the first group
Expand(tpl, s, c) ==
    LET RECURSIVE E(_)
        E(j) == IF j > Len(tpl) THEN <<>>
                ELSE (IF tpl[j] = "$1"
                      THEN (IF Len(c) >= 4 /\ c[3] >= 0 THEN Sub(s, c[3], c[4]) ELSE <<>>)
                      ELSE <<tpl[j]>>) \o E(j + 1)
    IN E(1)

RECURSIVE ReplaceFrom(_, _, _, _, _)
RECURSIVE ReplaceMatch(_, _, _, _, _, _)
\* one round of the loop of Regexp.replaceAll, a being the match found from
\* searchPos on: an empty match right after the previous match is not replaced
ReplaceMatch(re, s, tpl, lastMatchEnd, searchPos, a) ==
    IF Len(a) = 0 THEN From(s, lastMatchEnd)
    ELSE Sub(s, lastMatchEnd, a[1])
         \o (IF a[2] > lastMatchEnd \/ a[1] = 0 THEN Expand(tpl, s, a) ELSE <<>>)
         \o ReplaceFrom(re, s, tpl, a[2],
                        IF searchPos + 1 > a[2] THEN searchPos + 1 ELSE a[2])

\* the loop of Regexp.replaceAll: the matches are taken left to right without
\* overlap
ReplaceFrom(re, s, tpl, lastMatchEnd, searchPos) ==
    ReplaceMatch(re, s, tpl, lastMatchEnd, searchPos,
                 IF searchPos > Len(s) THEN <<>> ELSE FindFrom(re, s, searchPos))

\* Regexp.ReplaceAllString
ReplaceAllString(re, s, tpl) == ReplaceFrom(re, s, tpl, 0, 0)

\* strings.Contains
Contains(s, sub) ==
    \E i \in 0..(Len(s) - Len(sub)) : Sub(s, i, i + Len(sub)) = sub

(***************************************************************************)
(* Results (ptt.go, type Result) and the normalizer (normalizer.go).       *)
(* A string is a sequence of characters and a slice is a sequence; the nil *)
(* slice and the empty slice are both <<>>.  The error is "nil" or the     *)
(* name of the fault.                                                      *)
(***************************************************************************)

\* the zero Result, &Result{}
ZeroResult ==
    [Audio |-> <<>>, BitDepth |-> <<>>, Channels |-> <<>>, Codec |-> <<>>,
     Commentary |-> FALSE, Complete |-> FALSE, Container |-> <<>>, Convert |-> FALSE,
     Date |-> <<>>, Documentary |-> FALSE, Dubbed |-> FALSE, Edition |-> <<>>,
     EpisodeCode |-> <<>>, Episodes |-> <<>>, Extended |-> FALSE, Extension |-> <<>>,
     Group |-> <<>>, HDR |-> <<>>, Hardcoded |-> FALSE, Languages |-> <<>>,
     Network |-> <<>>, Proper |-> FALSE, Quality |-> <<>>, Region |-> <<>>,
     ReleaseTypes |-> <<>>, Remastered |-> FALSE, Repack |-> FALSE, Resolution |-> <<>>,
     Retail |-> FALSE, Seasons |-> <<>>, Site |-> <<>>, Size |-> <<>>, Subbed |-> FALSE,
     ThreeD |-> <<>>, Title |-> <<>>, Uncensored |-> FALSE, Unrated |-> FALSE,
     Upscaled |-> FALSE, Volumes |-> <<>>, Year |-> <<>>,
     err |-> "nil", is_normalized |-> FALSE]

\* Result.Error
Error(r) == r.err

s_AC3 == <<"A", "C", "3">>
s_EAC3 == <<"E", "A", "C", "3">>
s_DD == <<"D", "D">>
s_DDP == <<"D", "D", "P">>

\* the first loop of normalize_audio: the renamed list
RenameAudio(audio) ==
    [i \in 1..Len(audio) |->
        IF audio[i] = s_AC3 THEN s_DD ELSE IF audio[i] = s_EAC3 THEN s_DDP ELSE audio[i]]

RECURSIVE Dedup(_, _)
\* the second loop of normalize_audio: the items not seen before, in order
Dedup(audio, seenMap) ==
    IF Len(audio) = 0 THEN <<>>
    ELSE IF Head(audio) \in seenMap THEN Dedup(Tail(audio), seenMap)
    ELSE <<Head(audio)>> \o Dedup(Tail(audio), seenMap \cup {Head(audio)})

normalize_audio(audio) ==
    LET isChanged == \E i \in 1..Len(audio) : audio[i] \in {s_AC3, s_EAC3}
    IN IF ~isChanged THEN audio ELSE Dedup(RenameAudio(audio), {})

normalize_codec(codec0) ==
    LET codec == ToLower(codec0)
    IN CASE codec \in {<<"a", "v", "c">>, <<"h", "2", "6", "4">>, <<"x", "2", "6", "4">>} -> <<"A", "V", "C">>
         [] codec \in {<<"h", "e", "v", "c">>, <<"h", "2", "6", "5">>, <<"x", "2", "6", "5">>} -> <<"H", "E", "V", "C">>
         [] codec = <<"m", "p", "e", "g", "2">> -> <<"M", "P", "E", "G", "-", "2">>
         [] codec \in {<<"d", "i", "v", "x">>, <<"d", "v", "i", "x">>} -> <<"D", "i", "v", "X">>
         [] codec = <<"x", "v", "i", "d">> -> <<"X", "v", "i", "d">>
         [] OTHER -> codec

normalize_release_types(rtypes) ==
    [i \in 1..Len(rtypes) |->
        IF rtypes[i] = <<"O", "A", "V">> THEN <<"O", "V", "A">>
        ELSE IF rtypes[i] = <<"O", "D", "A">> THEN <<"O", "A", "D">> ELSE rtypes[i]]

normalize_resolution(resolution0) ==
    LET resolution == ToLower(resolution0)
    IN CASE resolution = <<"2", "1", "6", "0", "p">> -> <<"4", "k">>
         [] resolution = <<"1", "4", "4", "0", "p">> -> <<"2", "k">>
         [] OTHER -> resolution

\* Normalize without the check of the flag is_normalized
NormalizeEveryTime(r) ==
    IF Error(r) # "nil" THEN r
    ELSE [r EXCEPT !.Audio = normalize_audio(r.Audio),
                   !.Codec = normalize_codec(r.Codec),
                   !.ReleaseTypes = normalize_release_types(r.ReleaseTypes),
                   !.Resolution = normalize_resolution(r.Resolution),
                   !.is_normalized = TRUE]

\* Normalize without the check of the error
NormalizeFailed(r) ==
    IF ~r.is_normalized
    THEN [r EXCEPT !.Audio = normalize_audio(r.Audio),
                   !.Codec = normalize_codec(r.Codec),
                   !.ReleaseTypes = normalize_release_types(r.ReleaseTypes),
                   !.Resolution = normalize_resolution(r.Resolution),
                   !.is_normalized = TRUE]
    ELSE r

\* Result.Normalize
Normalize(r) ==
    IF Error(r) # "nil" THEN r
    ELSE IF ~r.is_normalized
    THEN [r EXCEPT !.Audio = normalize_audio(r.Audio),
                   !.Codec = normalize_codec(r.Codec),
                   !.ReleaseTypes = normalize_release_types(r.ReleaseTypes),
                   !.Resolution = normalize_resolution(r.Resolution),
                   !.is_normalized = TRUE]
    ELSE r

(***************************************************************************)
(* Value sets (part_000, type value_set)                                   *)
(***************************************************************************)

\* &value_set[any]{existMap: map[any]struct{}{}, values: []any{}}
EmptyValueSet == [existMap |-> {}, values |-> <<>>]

\* append without the check of existMap
appendAlways(set, v) ==
    [existMap |-> set.existMap \cup {v}, values |-> Append(set.values, v)]

\* value_set.append
append(set, v) ==
    IF v \notin set.existMap
    THEN [existMap |-> set.existMap \cup {v}, values |-> Append(set.values, v)]
    ELSE set

\* value_set.exists
exists(set, v) == v \in set.existMap

(***************************************************************************)
(* The engine's values (ptt.go, parseMeta) and the rule helpers            *)
(* (part_000).  A value of type any is a record tagged with its dynamic    *)
(* type k: "nil", "string", "bool", "[]int" or "*value_set".               *)
(***************************************************************************)

NilV == [k |-> "nil", s |-> <<>>, b |-> FALSE, n |-> <<>>, set |-> EmptyValueSet]

StrV(s) == [NilV EXCEPT !.k = "string", !.s = s]

BoolV(b) == [NilV EXCEPT !.k = "bool", !.b = b]

IntsV(n) == [NilV EXCEPT !.k = "[]int", !.n = n]

SetV(set) == [NilV EXCEPT !.k = "*value_set", !.set = set]

\* &parseMeta{}
parseMeta == [mIndex |-> 0, mValue |-> <<>>, value |-> NilV, remove |-> FALSE, processed |-> FALSE]

value_set_field_map == {"audio", "channels", "hdr", "languages", "releaseTypes"}

has_value_set(field) == field \in value_set_field_map

\* map[string]*parseMeta{}
EmptyMap == [f \in {} |-> parseMeta]

\* result[field] = m
Put(result, field, m) ==
    [f \in DOMAIN result \cup {field} |-> IF f = field THEN m ELSE result[f]]

\* delete(result, field)
Delete(result, field) == [f \in DOMAIN result \ {field} |-> result[f]]

\* strings.HasSuffix
HasSuffix(s, suffix) ==
    Len(s) >= Len(suffix) /\ From(s, Len(s) - Len(suffix)) = suffix

RECURSIVE SplitFrom(_, _, _)
RECURSIVE SplitMatch(_, _, _, _)
\* the pieces of s from beg on, a being the first match from beg on
SplitMatch(re, s, beg, a) ==
    IF Len(a) = 0 THEN <<From(s, beg)>>
    ELSE <<Sub(s, beg, a[1])>> \o SplitFrom(re, s, a[2])

\* Regexp.Split(s, -1) for a pattern that matches no empty string: the pieces
\* between the matches
SplitFrom(re, s, beg) == SplitMatch(re, s, beg, FindFrom(re, s, beg))

Split(re, s) == IF Len(s) = 0 THEN <<<<>>>> ELSE SplitFrom(re, s, 0)

DigitVal(c) ==
    CASE c = "0" -> 0 [] c = "1" -> 1 [] c = "2" -> 2 [] c = "3" -> 3 [] c = "4" -> 4
      [] c = "5" -> 5 [] c = "6" -> 6 [] c = "7" -> 7 [] c = "8" -> 8 [] c = "9" -> 9

DigitChar(d) == CHOOSE c \in Digit : DigitVal(c) = d

RECURSIVE AtoiDigits(_, _)
AtoiDigits(s, acc) ==
    IF Len(s) = 0 THEN acc ELSE AtoiDigits(Tail(s), 10 * acc + DigitVal(Head(s)))

\* strconv.Atoi on a string without sign: the number, or err for a string
\* that is empty or holds another character
Atoi(s) ==
    IF Len(s) > 0 /\ \A j \in 1..Len(s) : s[j] \in Digit
    THEN [err |-> FALSE, num |-> AtoiDigits(s, 0)]
    ELSE [err |-> TRUE, num |-> 0]

RECURSIVE Itoa(_)
\* strconv.Itoa of a number >= 0
Itoa(n) == IF n < 10 THEN <<DigitChar(n)>> ELSE Itoa(n \div 10) \o <<DigitChar(n % 10)>>

non_digits_regex == Re(0, Plus(NSet(Digit)))

underscores_regex == Re(0, Plus(Lit(<<"_">>)))

whitespaces_regex == Re(0, Plus(Set(SpaceCh)))

before_title_regex ==
    Re(1, Cat(<<Bol, Lit(<<"[">>), Grp(1, Plus(NSet({"[", "]"}))), Lit(<<"]">>)>>))

\* the fault of a failed type assertion x.(T)
TypeAssertionError == "interface conversion"

\* the fault of s[a:b] or s[i] out of range
BoundsError == "slice bounds out of range"

\* the fault of a field read through a nil *parseMeta
NilError == "nil pointer dereference"

\* the outcome of a transformer or a processor: the meta it leaves, the map
\* it leaves, and the fault it raised ("nil" for none)
Did(m, result) == [m |-> m, result |-> result, fault |-> "nil"]

Panic(m, result, e) == [m |-> m, result |-> result, fault |-> e]

\* lines 163-167 of to_year without the test of line 163
YearRangeAny(startYear, endYear) == Itoa(startYear) \o <<"-">> \o Itoa(endYear)

\* lines 164-168 of to_year: the range for the years startYear and endYear
YearRange(startYear, endYear) ==
    IF endYear <= startYear THEN <<>>
    ELSE Itoa(startYear) \o <<"-">> \o Itoa(endYear)

\* lines 150-168 of to_year, e and b being what Atoi gave for end and start
YearEnds(start, e, b) ==
    IF e.err THEN start
    ELSE IF b.err THEN <<>>
    ELSE YearRange(b.num, IF e.num < 100 THEN e.num + b.num - (b.num % 100) ELSE e.num)

\* lines 145-168 of to_year for the parts of the string
YearParts(parts) ==
    IF Len(parts) = 1 THEN parts[1]
    ELSE YearEnds(parts[1], Atoi(parts[2]), Atoi(parts[1]))

\* the value to_year leaves for the string vstr
YearOf(vstr) == YearParts(Split(non_digits_regex, vstr))

to_year(m) ==
    IF m.value.k # "string" THEN [m EXCEPT !.value = StrV(<<>>)]
    ELSE [m EXCEPT !.value = StrV(YearOf(m.value.s))]

RECURSIVE TrimChar(_, _)
\* strings.Trim(s, c) for a one-character cutset c
TrimChar(s, c) ==
    IF Len(s) > 0 /\ Head(s) = c THEN TrimChar(Tail(s), c)
    ELSE IF Len(s) > 0 /\ s[Len(s)] = c THEN TrimChar(Sub(s, 0, Len(s) - 1), c)
    ELSE s

RECURSIVE SplitChar(_, _, _)
\* strings.Split(s, c) for a one-character separator c, piece being the
\* characters read since the last separator
SplitChar(s, c, piece) ==
    IF Len(s) = 0 THEN <<piece>>
    ELSE IF Head(s) = c THEN <<piece>> \o SplitChar(Tail(s), c, <<>>)
    ELSE SplitChar(Tail(s), c, Append(piece, Head(s)))

\* lines 178-184 of to_int_range: a part Atoi fails on leaves 0 in nums
AtoiOrZero(a) == IF a.err THEN 0 ELSE a.num

NumsOf(parts) == [j \in 1..Len(parts) |-> AtoiOrZero(Atoi(parts[j]))]

\* lines 185-191 of to_int_range
ExpandRange(nums) ==
    IF Len(nums) = 2 /\ nums[1] < nums[2]
    THEN [j \in 1..(nums[2] - nums[1] + 1) |-> nums[1] + j - 1]
    ELSE nums

\* lines 192-198 of to_int_range
SequenceValue(nums) ==
    IF \A j \in 1..(Len(nums) - 1) : nums[j] + 1 = nums[j + 1]
    THEN IntsV(nums) ELSE NilV

to_int_range(m) ==
    IF m.value.k # "string" THEN [m EXCEPT !.value = NilV]
    ELSE [m EXCEPT !.value =
            SequenceValue(ExpandRange(NumsOf(SplitChar(
                TrimChar(ReplaceAllString(non_digits_regex, m.value.s, <<" ">>), " "),
                " ", <<>>))))]

\* no Transform
NoTransform == [f |-> "nil", arg |-> <<>>]

to_value(value) == [f |-> "to_value", arg |-> value]

to_lowercase == [f |-> "to_lowercase", arg |-> <<>>]

to_uppercase == [f |-> "to_uppercase", arg |-> <<>>]

to_with_suffix(suffix) == [f |-> "to_with_suffix", arg |-> suffix]

to_boolean == [f |-> "to_boolean", arg |-> <<>>]

to_value_set(v) == [f |-> "to_value_set", arg |-> v]

\* part_000, lines 526-530: the year transformer after its call of to_year
year_526(m, result) ==
    IF "complete" \in DOMAIN result THEN Did(m, result)
    ELSE IF m.value.k # "string" THEN Panic(m, result, TypeAssertionError)
    ELSE IF Contains(m.value.s, <<"-">>)
    THEN Did(m, Put(result, "complete", [m EXCEPT !.value = BoolV(TRUE)]))
    ELSE Did(m, result)

\* part_000, lines 262-273: a is what strconv.Atoi returned
IntArray(a) == IF a.err THEN IntsV(<<>>) ELSE IntsV(<<a.num>>)

to_int_array(m) ==
    IF m.value.k = "string" THEN [m EXCEPT !.value = IntArray(Atoi(m.value.s))]
    ELSE [m EXCEPT !.value = IntsV(<<>>)]

\* handler.Transform(title, m, result) for the transformers above and to_year
Transform(tr, title, m, result) ==
    CASE tr.f = "to_value" -> Did([m EXCEPT !.value = StrV(tr.arg)], result)
      [] tr.f = "to_lowercase" ->
           IF m.value.k = "string"
           THEN Did([m EXCEPT !.value = StrV(ToLower(m.value.s))], result)
           ELSE Panic(m, result, TypeAssertionError)
      [] tr.f = "to_uppercase" ->
           IF m.value.k = "string"
           THEN Did([m EXCEPT !.value = StrV(ToUpper(m.value.s))], result)
           ELSE Panic(m, result, TypeAssertionError)
      [] tr.f = "to_with_suffix" ->
           IF m.value.k = "string"
           THEN Did([m EXCEPT !.value = StrV(m.value.s \o tr.arg)], result)
           ELSE Did([m EXCEPT !.value = StrV(<<>>)], result)
      [] tr.f = "to_boolean" -> Did([m EXCEPT !.value = BoolV(TRUE)], result)
      [] tr.f = "to_year" -> Did(to_year(m), result)
      [] tr.f = "year_524" -> year_526(to_year(m), result)
      [] tr.f = "to_int_range" -> Did(to_int_range(m), result)
      [] tr.f = "to_int_array" -> Did(to_int_array(m), result)
      [] tr.f = "to_value_set" ->
           IF m.value.k = "*value_set"
           THEN Did([m EXCEPT !.value = SetV(append(m.value.set, tr.arg))], result)
           ELSE Did(m, result)

\* no ValidateMatch
NoValidate == [f |-> "nil", re |-> Re(0, Cat(<<>>))]

validate_not_match(re) == [f |-> "validate_not_match", re |-> re]

\* handler.ValidateMatch(input, match); match holds the offsets at 1, 2, ...
\* that the source holds at 0, 1, ...
ValidateMatch(v, input, match) ==
    CASE v.f = "nil" -> TRUE
      [] v.f = "validate_not_match" -> ~MatchString(v.re, Sub(input, match[1], match[2]))
      [] v.f = "year_557" -> ~MatchString(v.re, From(input, match[4]))
      [] v.f = "quality_925" ->
           ~HasSuffix(ToLower(Sub(input, match[1], match[2])), <<"r", "i", "p">>)

\* no Process
NoProcess == [f |-> "nil", re |-> Re(0, Cat(<<>>))]

remove_from_value(re) == [f |-> "remove_from_value", re |-> re]

\* the group processor without its loop over the keys of result
NoOverlap(result, endIndex, todo) == {FALSE}

RECURSIVE OverlapLoop(_, _, _)
\* the loop "for key := range result" of the group processor over the keys
\* todo not yet visited, in every order the map may yield them: TRUE when the
\* loop returned from its body, FALSE when it ran to its end
OverlapLoop(result, endIndex, todo) ==
    IF todo = {} THEN {FALSE}
    ELSE UNION {IF result[key].mIndex > 0 /\ result[key].mIndex < endIndex
                THEN {TRUE}
                ELSE OverlapLoop(result, endIndex, todo \ {key}) : key \in todo}

\* the outcomes of the map iteration of handler.Process(title, m, result)
ProcessRange(pr, m, result) ==
    IF pr.f = "group_3546" /\ m.mValue # <<>> /\ MatchString(pr.re, m.mValue)
    THEN OverlapLoop(result, m.mIndex + Len(m.mValue), DOMAIN result)
    ELSE {FALSE}

\* part_000, lines 1585-1590: a is what strconv.Atoi returned
VolumesSet(m, result, a, mIndex, mValue) ==
    IF a.err THEN Did(m, result)
    ELSE Did([m EXCEPT !.mIndex = mIndex, !.mValue = mValue,
                       !.value = IntsV(<<a.num>>), !.remove = TRUE], result)

\* part_000, lines 1580-1591: mIdxs is what re found in title[startIndex:]
VolumesFound(title, m, result, startIndex, mIdxs) ==
    IF Len(mIdxs) = 0 THEN Did(m, result)
    ELSE VolumesSet(m, result,
                    Atoi(Sub(title, startIndex + mIdxs[3], startIndex + mIdxs[4])),
                    mIdxs[1],
                    Sub(title, startIndex + mIdxs[1], startIndex + mIdxs[2]))

\* part_000, lines 1573-1576
VolumesStart(title, result) ==
    IF "year" \in DOMAIN result
    THEN (IF result["year"].mIndex < Len(title) THEN result["year"].mIndex ELSE Len(title))
    ELSE 0

\* part_000, lines 1572-1591: the processor of the volumes rule
volumes_1572(re, title, m, result, startIndex) ==
    VolumesFound(title, m, result, startIndex,
                 FindStringSubmatchIndex(re, From(title, startIndex)))

\* handler.Process(title, m, result), its map iteration having returned
\* early (returned) or not
Process(pr, title, m, result, returned) ==
    CASE pr.f = "remove_from_value" ->
           IF m.value.k = "string" /\ m.value.s # <<>>
           THEN Did([m EXCEPT !.value = StrV(ReplaceAllString(pr.re, m.value.s, <<>>))], result)
           ELSE Did(m, result)
      [] pr.f = "volumes_1572" ->
           volumes_1572(pr.re, title, m, result, VolumesStart(title, result))
      [] pr.f = "group_3546" ->
           IF returned
           THEN Did([m EXCEPT !.value = StrV(<<>>)], result)
           ELSE Did([m EXCEPT !.mIndex = 0, !.mValue = <<>>], result)

(***************************************************************************)
(* The rule table (part_000, var handlers): the rules below, in the order  *)
(* of the source.  Each is named by its field and its line.                *)
(***************************************************************************)

\* no Pattern
NoPattern == [ng |-> -1, n |-> Cat(<<>>)]

\* handler{}
handler ==
    [Field |-> "", Pattern |-> NoPattern, ValidateMatch |-> NoValidate,
     Transform |-> NoTransform, Process |-> NoProcess,
     Remove |-> FALSE, KeepMatching |-> FALSE, SkipIfFirst |-> FALSE,
     SkipIfBefore |-> <<>>, SkipFromTitle |-> FALSE, MatchGroup |-> 0, ValueGroup |-> 0]

site_315 ==
    [handler EXCEPT
        !.Field = "site",
        !.Pattern = Re(1, Cat(<<Bol, Grp(1, Cat(<<LitI(<<"w", "w">>), Opt(LitI(<<"w">>)), Set({".", ",",
            " "}), Plus(Set(WordCh \cup {"-"})), Set({".", " "}), Plus(Set(WordCh \cup {"-"})),
            Opt(Cat(<<Set({".", " "}), Plus(Set(WordCh \cup {"-"}))>>))>>)), Plus(Set(SpaceCh)),
            Lit(<<"-">>), Star(Set(SpaceCh))>>)),
        !.KeepMatching = TRUE, !.SkipFromTitle = TRUE, !.Remove = TRUE]

resolution_419 ==
    [handler EXCEPT
        !.Field = "resolution",
        !.Pattern = Re(1, Cat(<<Grp(1, Alt(<<Lit(<<"4", "8", "0">>), Lit(<<"5", "7", "6">>), Lit(<<"7",
            "2", "0">>), Lit(<<"1", "0", "8", "0">>), Lit(<<"2", "1", "6", "0">>)>>)),
            Set(Fold({"p", "i"}))>>)),
        !.Transform = to_with_suffix(<<"p">>), !.Remove = TRUE]

year_521 ==
    [handler EXCEPT
        !.Field = "year",
        !.Pattern = Re(2, Cat(<<Opt(Set({" ", "."})),
            Grp(1, Cat(<<Opt(Set({"(", "[", "*"})),
                Grp(2, Cat(<<Alt(<<Cat(<<Lit(<<"1", "9">>), Set(Digit)>>),
                                   Cat(<<Lit(<<"2", "0">>), Set({"0", "1", "2"})>>)>>), Set(Digit),
                             Opt(Set({" ", "."})), Lit(<<"-">>), Opt(Set({" ", "."})),
                             Alt(<<Cat(<<Lit(<<"1", "9">>), Set(Digit)>>),
                                   Cat(<<Lit(<<"2", "0">>), Set({"0", "1", "2"})>>)>>), Set(Digit)>>)),
                Opt(Set({"*", ")", "]"}))>>)),
            Opt(Set({" ", "."}))>>)),
        !.Transform = [f |-> "year_524", arg |-> <<>>],
        !.MatchGroup = 1, !.ValueGroup = 2, !.Remove = TRUE]

year_554 ==
    [handler EXCEPT
        !.Field = "year",
        !.Pattern = Re(1, Cat(<<Opt(Set({"(", "[", "*"})), WordB, Grp(1, Cat(<<Lit(<<"2">>),
            Alt(<<Cat(<<Lit(<<"0">>), Rep(Set(Digit), 2, 2)>>), Lit(<<"1", "0", "0">>)>>)>>)),
            Opt(Set({"*", "]", ")"}))>>)),
        !.ValidateMatch = [f |-> "year_557", re |-> Re(0, Cat(<<Star(NSet(Digit)), Rep(Set(Digit), 4, 4), WordB>>))],
        !.Transform = [f |-> "to_year", arg |-> <<>>], !.Remove = TRUE]

region_816 ==
    [handler EXCEPT
        !.Field = "region",
        !.Pattern = Re(0, Cat(<<Lit(<<"R">>), Set(Digit), Opt(Lit(<<"J">>)), WordB>>)),
        !.Remove = TRUE, !.SkipIfFirst = TRUE]

quality_922 ==
    [handler EXCEPT
        !.Field = "quality",
        !.Pattern = Re(0, Cat(<<WordB, LitI(<<"b", "l", "u">>), Star(Set({" ", ".", "-"})), LitI(<<"r",
            "a", "y">>), WordB, Opt(Cat(<<Star(Set({" ", ".", "-"})), LitI(<<"r", "i",
            "p">>)>>))>>)),
        !.ValidateMatch = [f |-> "quality_925", re |-> Re(0, Cat(<<>>))],
        !.Transform = to_value(<<"B", "l", "u", "R", "a", "y">>), !.Remove = TRUE]

quality_1031 ==
    [handler EXCEPT
        !.Field = "quality",
        !.Pattern = Re(0, Cat(<<WordB, LitI(<<"r", "5">>), WordB>>)),
        !.Transform = to_value(<<"R", "5">>), !.Remove = TRUE]

codec_1249 ==
    [handler EXCEPT
        !.Field = "codec",
        !.Pattern = Re(0, Cat(<<WordB, Set(Fold({"x", "h"})), Opt(Set({"-", ".", " "})), Lit(<<"2", "6">>),
            Set({"4", "5"})>>)),
        !.Transform = to_lowercase, !.Remove = TRUE]

codec_1255 ==
    [handler EXCEPT
        !.Field = "codec",
        !.Pattern = Re(0, Cat(<<WordB, LitI(<<"h", "e", "v", "c">>),
            Opt(Cat(<<Opt(Set(SpaceCh)), Lit(<<"1", "0">>)>>)), WordB>>)),
        !.Transform = to_value(<<"h", "e", "v", "c">>), !.Remove = TRUE, !.KeepMatching = TRUE]

codec_1269 ==
    [handler EXCEPT
        !.Field = "codec",
        !.Process = remove_from_value(Re(0, Set({" ", ".", "-"})))]

audio_1469 ==
    [handler EXCEPT
        !.Field = "audio",
        !.Pattern = Re(1, Cat(<<WordB, Grp(1, Alt(<<LitI(<<"d", "d">>),
            Cat(<<LitI(<<"d", "o", "l", "b", "y">>), Opt(AnyCh), LitI(<<"d", "i", "g", "i", "t", "a", "l">>)>>),
            LitI(<<"d", "o", "l", "b", "y", "d">>)>>)), WordB>>)),
        !.Transform = to_value_set(<<"D", "D">>), !.KeepMatching = TRUE, !.Remove = TRUE]

audio_1475 ==
    [handler EXCEPT
        !.Field = "audio",
        !.Pattern = Re(1, Cat(<<WordB, Grp(1, Cat(<<LitI(<<"a", "c">>), Opt(Lit(<<"-">>)), Lit(<<"3">>),
            Opt(LitI(<<"x", "2">>)), Opt(Cat(<<LitI(<<"-", "s">>), Plus(Set(Digit))>>))>>)),
            WordB>>)),
        !.Transform = to_value_set(<<"A", "C", "3">>), !.KeepMatching = TRUE, !.Remove = TRUE]

group_1534 ==
    [handler EXCEPT
        !.Field = "group",
        !.Pattern = Re(2, Cat(<<Grp(1, Cat(<<Lit(<<"-">>), Opt(Lit(<<" ">>)), Grp(2, Cat(<<Plus(NSet({"-",
            ".", " ", "["})), NSet(Digit \cup {"-", ".", " ", "[", ")", "]"}), Star(NSet({"-", ".",
            " ", "[", ")", "]"}))>>))>>)), Opt(Cat(<<Lit(<<"[">>), Plus(Set(WordCh \cup {".",
            "-"})), Lit(<<"]">>)>>)), Alt(<<Cat(<<Lit(<<".">>), Rep(Set(WordCh), 2, 4), Eol>>),
            Eol>>)>>)),
        !.ValidateMatch = validate_not_match(Re(0, Cat(<<Lit(<<"-">>), Opt(Lit(<<" ">>)), Alt(<<Cat(<<Plus(Set(Digit)), Eol>>),
            Cat(<<LitI(<<"s">>), Plus(Set(Digit))>>), Cat(<<Plus(Set(Digit)), LitI(<<"x">>)>>),
            Cat(<<LitI(<<"e">>), Opt(LitI(<<"p">>)), Plus(Set(Digit))>>), Cat(<<Plus(NSet({"["})),
            Lit(<<"]">>), Eol>>)>>)>>))),
        !.MatchGroup = 1, !.ValueGroup = 2]

volumes_1551 ==
    [handler EXCEPT
        !.Field = "volumes",
        !.Pattern = Re(0, Cat(<<WordB, LitI(<<"v", "o", "l">>),
            Opt(Alt(<<LitI(<<"s">>), Cat(<<LitI(<<"u", "m", "e">>), Opt(LitI(<<"s">>))>>)>>)),
            Star(Set({".", " ", "-"})),
            Plus(Cat(<<Rep(Set(Digit), 1, 3),
                       Plus(Set({".", ",", " ", "+", "/", "\\", "&", "-"}))>>)),
            Rep(Set(Digit), 1, 3), WordB>>)),
        !.Transform = [f |-> "to_int_range", arg |-> <<>>], !.Remove = TRUE]

volumes_1568 ==
    [handler EXCEPT
        !.Field = "volumes",
        !.Process = [f |-> "volumes_1572",
                     re |-> Re(1, Cat(<<WordB, LitI(<<"v", "o", "l">>), Opt(LitI(<<"u", "m", "e">>)),
                         Star(Set({".", " ", "-"})), Grp(1, Rep(Set(Digit), 1, 3))>>))]]

seasons_1866 ==
    [handler EXCEPT
        !.Field = "seasons",
        !.Pattern = Re(1, Cat(<<Bol, Grp(1, Rep(Set(Digit), 1, 2)), Lit(<<".">>),
            Rep(Set(Digit), 2, 3), Lit(<<" ", "-", " ">>)>>)),
        !.Transform = [f |-> "to_int_array", arg |-> <<>>],
        !.SkipIfBefore = <<"year", "source", "resolution">>]

group_3536 ==
    [handler EXCEPT
        !.Field = "group",
        !.Pattern = Re(1, Cat(<<Bol, Lit(<<"[">>), Grp(1, Plus(NSet({"[", "]"}))), Lit(<<"]">>)>>))]

group_3544 ==
    [handler EXCEPT
        !.Field = "group",
        !.Process = [f |-> "group_3546", re |-> Re(0, Cat(<<Bol, Lit(<<"[">>), Plus(AnyCh), Lit(<<"]">>), Eol>>))]]

handlers ==
    <<site_315, resolution_419, year_521, year_554, region_816, quality_922, quality_1031,
      codec_1249, codec_1255, codec_1269, audio_1469, audio_1475, group_1534, volumes_1551, volumes_1568, seasons_1866,
      group_3536,
      group_3544>>

(***************************************************************************)
(* parse (ptt.go).  The state of a call between two rules is the record    *)
(* [title, result, endOfTitle, fault, last]; fault is "nil" until a panic. *)
(***************************************************************************)

\* what the last iteration did, for the properties: whether it reached lines
\* 277-292 and, if so, the values they read; whether a skip policy discarded
\* its match (lines 201-203, 212-214); whether it called handler.Process
\* (lines 254, 256) and handler.Transform (line 265)
NotFinalized ==
    [finalized |-> FALSE, remove |-> FALSE, skipFromTitle |-> FALSE,
     mIndex |-> 0, mValue |-> <<>>,
     skipped |-> FALSE, ranProcess |-> FALSE, ranTransform |-> FALSE]

\* title[a:b] does not panic
SliceOK(title, a, b) == 0 <= a /\ a <= b /\ b <= Len(title)

RECURSIVE SkipIfFirstLoop(_, _, _, _, _)
\* lines 190-198, over the keys todo not yet visited, in every order the map
\* may yield them: the pairs <<hasOther, hasBefore>> the loop can end with
SkipIfFirstLoop(result, field, idx0, todo, hasOther) ==
    IF todo = {} THEN {<<hasOther, FALSE>>}
    ELSE UNION {IF f # field
                THEN IF idx0 >= result[f].mIndex
                     THEN {<<TRUE, TRUE>>}
                     ELSE SkipIfFirstLoop(result, field, idx0, todo \ {f}, TRUE)
                ELSE SkipIfFirstLoop(result, field, idx0, todo \ {f}, hasOther)
                : f \in todo}

\* shouldSkip when another field has a match at or before the candidate
ShouldSkipAtOrBefore(h, result, idxs) ==
    IF h.SkipIfFirst /\ Len(idxs) > 0
    THEN {o[1] /\ o[2] : o \in SkipIfFirstLoop(result, h.Field, idxs[1], DOMAIN result, FALSE)}
    ELSE {FALSE}

\* lines 186-200: the values shouldSkip can take
ShouldSkip(h, result, idxs) ==
    IF h.SkipIfFirst /\ Len(idxs) > 0
    THEN {o[1] /\ ~o[2] : o \in SkipIfFirstLoop(result, h.Field, idxs[1], DOMAIN result, FALSE)}
    ELSE {FALSE}

\* the iteration without lines 205-211
SkipIfBeforeNever(h, result, idxs) == FALSE

\* lines 205-211
SkipIfBefore(h, result, idxs) ==
    \E j \in 1..Len(h.SkipIfBefore) :
        /\ h.SkipIfBefore[j] \in DOMAIN result
        /\ idxs[1] < result[h.SkipIfBefore[j]].mIndex

\* the work of one iteration of the loop of lines 168-293: the call's state
\* st, the meta m the iteration holds (found: it is result[field]),
\* skipFromTitle, and whether the iteration has ended (continue or panic)
Work(st, m, found, skipFromTitle, ended) ==
    [st |-> st, m |-> m, found |-> found, skipFromTitle |-> skipFromTitle, ended |-> ended]

\* the iteration without its continue statements: it goes on to line 252
FallThrough(w) == w

Continue(w) == [w EXCEPT !.ended = TRUE]

\* continue at line 202 or 213
Skip(w) == [Continue(w) EXCEPT !.st.last.skipped = TRUE]

Raise(w, e) == [w EXCEPT !.ended = TRUE, !.st.fault = e]

\* the meta m of the iteration is the one the map holds: a write to it is a
\* write to result[field]
Hold(w, h, m) ==
    [w EXCEPT !.m = m, !.st.result = IF w.found THEN Put(@, h.Field, m) ELSE @]

\* line 242 without its test of has_value_set
MatchedValueAlways(field, value, matchedPart) == StrV(matchedPart)

\* lines 242-244: m.value after them
MatchedValue(field, value, matchedPart) ==
    IF has_value_set(field) THEN value ELSE StrV(matchedPart)

\* lines 217-249, the match idxs having passed the checks
Matched(w, h, idxs) ==
    LET title == w.st.title
        field == h.Field
        rawMatchedPart == Sub(title, idxs[1], idxs[2])
        useGroup == IF Len(idxs) > 2
                    THEN IF h.ValueGroup = 0 THEN 1
                         ELSE IF Len(idxs) > h.ValueGroup * 2 THEN h.ValueGroup ELSE 0
                    ELSE 0
        matchedPart == Sub(title, idxs[2 * useGroup + 1], idxs[2 * useGroup + 2])
        skipFromTitle ==
            IF Contains(FindString(before_title_regex, title), rawMatchedPart)
            THEN TRUE ELSE w.skipFromTitle
        m0 == IF w.found THEN w.m
              ELSE IF has_value_set(field)
                   THEN [parseMeta EXCEPT !.value = SetV(EmptyValueSet)]
                   ELSE parseMeta
        m1 == [m0 EXCEPT !.mIndex = idxs[1], !.mValue = rawMatchedPart,
                         !.value = MatchedValue(field, @, matchedPart)]
        g == h.MatchGroup
        m2 == IF g # 0
              THEN [m1 EXCEPT !.mIndex = idxs[2 * g + 1],
                              !.mValue = Sub(title, idxs[2 * g + 1], idxs[2 * g + 2])]
              ELSE m1
    IN IF ~SliceOK(title, idxs[2 * useGroup + 1], idxs[2 * useGroup + 2])
       THEN Raise(w, BoundsError)
       ELSE IF g # 0 /\ (2 * g + 2 > Len(idxs)
                         \/ ~SliceOK(title, idxs[2 * g + 1], idxs[2 * g + 2]))
       THEN Raise(w, BoundsError)
       ELSE Hold([w EXCEPT !.found = TRUE, !.skipFromTitle = skipFromTitle], h, m2)

\* lines 180-249, idxs being what the pattern found in the title
MatchPart(w, h, shouldSkip, idxs) ==
    IF Len(idxs) = 0 THEN Continue(w)
    ELSE IF ~ValidateMatch(h.ValidateMatch, w.st.title, idxs) THEN Continue(w)
    ELSE IF shouldSkip THEN Skip(w)
    ELSE IF SkipIfBefore(h, w.st.result, idxs) THEN Skip(w)
    ELSE Matched(w, h, idxs)

\* lines 174-250
PatternPart(w, h, shouldSkip) ==
    IF h.Pattern.ng < 0 THEN w
    ELSE IF w.found /\ ~h.KeepMatching THEN Continue(w)
    ELSE MatchPart(w, h, shouldSkip, FindStringSubmatchIndex(h.Pattern, w.st.title))

\* lines 256-261, p being what handler.Process left
Processed(w, h, p) ==
    IF p.fault # "nil" THEN Raise([w EXCEPT !.st.result = p.result], p.fault)
    ELSE IF w.found THEN Hold([w EXCEPT !.st.result = p.result], h, p.m)
    ELSE IF p.m.value.k # "nil"
    THEN Hold([w EXCEPT !.st.result = p.result, !.found = TRUE], h, p.m)
    ELSE [w EXCEPT !.st.result = p.result, !.m = p.m]

\* lines 252-262
ProcessPart(w, h, returned) ==
    IF w.ended \/ h.Process.f = "nil" THEN w
    ELSE Processed([w EXCEPT !.st.last.ranProcess = TRUE], h,
                   Process(h.Process, w.st.title,
                           IF w.found THEN w.m ELSE parseMeta,
                           w.st.result, returned))

\* line 265, t being what handler.Transform left
Transformed(w, h, t) ==
    IF t.fault # "nil" THEN Raise([w EXCEPT !.st.result = t.result], t.fault)
    ELSE Hold([w EXCEPT !.st.result = t.result], h, t.m)

\* lines 264-266; m is the nil pointer when the field was not found and the
\* rule has neither a pattern nor a processor
TransformPart(w, h) ==
    IF w.ended THEN w
    ELSE IF ~w.found /\ h.Pattern.ng < 0 /\ h.Process.f = "nil" THEN Raise(w, NilError)
    ELSE IF w.m.value.k # "nil" /\ h.Transform.f # "nil"
    THEN Transformed([w EXCEPT !.st.last.ranTransform = TRUE], h,
                     Transform(h.Transform, w.st.title, w.m, w.st.result))
    ELSE w

\* the iteration without lines 268-271
KeepPart(w, h) == w

\* lines 268-271
DeletePart(w, h) ==
    IF w.ended THEN w
    ELSE IF w.m.value.k = "nil"
    THEN [w EXCEPT !.st.result = Delete(@, h.Field), !.found = FALSE]
    ELSE w

\* lines 282-289 without the condition m.mIndex != 0
EndOfTitleAnyOffset(endOfTitle, mIndex, mValue, remove, skipFromTitle) ==
    LET endOfTitle1 == IF ~skipFromTitle /\ mIndex < endOfTitle
                       THEN mIndex ELSE endOfTitle
    IN IF remove /\ skipFromTitle /\ mIndex < endOfTitle1
       THEN endOfTitle1 - Len(mValue) ELSE endOfTitle1

\* lines 282-289 without the condition !skipFromTitle
EndOfTitleIgnoringSkip(endOfTitle, mIndex, mValue, remove, skipFromTitle) ==
    LET endOfTitle1 == IF mIndex # 0 /\ mIndex < endOfTitle
                       THEN mIndex ELSE endOfTitle
    IN IF remove /\ skipFromTitle /\ mIndex < endOfTitle1
       THEN endOfTitle1 - Len(mValue) ELSE endOfTitle1

\* lines 282-289 without the condition m.mIndex < endOfTitle of line 287
EndOfTitleAlwaysRetracted(endOfTitle, mIndex, mValue, remove, skipFromTitle) ==
    LET endOfTitle1 == IF ~skipFromTitle /\ mIndex # 0 /\ mIndex < endOfTitle
                       THEN mIndex ELSE endOfTitle
    IN IF remove /\ skipFromTitle
       THEN endOfTitle1 - Len(mValue) ELSE endOfTitle1

\* lines 282-289: endOfTitle after them
EndOfTitle(endOfTitle, mIndex, mValue, remove, skipFromTitle) ==
    LET endOfTitle1 == IF ~skipFromTitle /\ mIndex # 0 /\ mIndex < endOfTitle
                       THEN mIndex ELSE endOfTitle
    IN IF remove /\ skipFromTitle /\ mIndex < endOfTitle1
       THEN endOfTitle1 - Len(mValue) ELSE endOfTitle1

\* line 273 without its test of m.processed
NoReSkip(w, h) == FALSE

\* line 273: the field was processed by an earlier rule
ReSkip(w, h) == w.m.processed /\ ~h.KeepMatching /\ ~has_value_set(h.Field)

\* lines 273-292
FinalPart(w, h) ==
    IF w.ended THEN w
    ELSE IF ~w.found \/ ReSkip(w, h)
    THEN Continue(w)
    ELSE LET title == w.st.title
             remove == h.Remove \/ w.m.remove
             mIndex == w.m.mIndex
             mValue == w.m.mValue
             title1 == IF remove
                       THEN Sub(title, 0, mIndex) \o From(title, mIndex + Len(mValue))
                       ELSE title
             endOfTitle2 == EndOfTitle(w.st.endOfTitle, mIndex, mValue, remove,
                                       w.skipFromTitle)
             w1 == [w EXCEPT !.st.title = title1, !.st.endOfTitle = endOfTitle2,
                             !.st.last = [@ EXCEPT !.finalized = TRUE, !.remove = remove,
                                                   !.skipFromTitle = w.skipFromTitle,
                                                   !.mIndex = mIndex, !.mValue = mValue]]
         IN IF remove /\ ~(SliceOK(title, 0, mIndex)
                           /\ SliceOK(title, mIndex + Len(mValue), Len(title)))
            THEN Raise(w, BoundsError)
            ELSE Hold(w1, h, [w.m EXCEPT !.remove = FALSE, !.processed = TRUE])

\* the values shouldSkip can take in the iteration for rule h from state st
SkipChoices(st, h) ==
    IF h.Pattern.ng >= 0 /\ h.SkipIfFirst /\ (h.Field \notin DOMAIN st.result \/ h.KeepMatching)
    THEN ShouldSkip(h, st.result, FindStringSubmatchIndex(h.Pattern, st.title))
    ELSE {FALSE}

\* the iteration for rule h from state st up to the processor
Start(st, h, shouldSkip) ==
    LET found == h.Field \in DOMAIN st.result
    IN PatternPart(Work([st EXCEPT !.last = NotFinalized],
                        IF found THEN st.result[h.Field] ELSE parseMeta, found,
                        h.SkipFromTitle, FALSE),
                   h, shouldSkip)

\* the outcomes the processor's map iteration can have after Start
ReturnChoices(w, h) ==
    IF w.ended \/ h.Process.f = "nil" THEN {FALSE}
    ELSE ProcessRange(h.Process, IF w.found THEN w.m ELSE parseMeta, w.st.result)

\* lines 252-292 after the work w of Start: the states the iteration can leave
Rest(w, h) ==
    {FinalPart(DeletePart(TransformPart(ProcessPart(w, h, returned), h), h), h).st
     : returned \in ReturnChoices(w, h)}

\* one iteration of the loop of lines 168-293 for rule h from state st: the
\* states it can leave, one for each order in which the maps are iterated
Iteration(st, h) ==
    UNION {Rest(Start(st, h, shouldSkip), h) : shouldSkip \in SkipChoices(st, h)}

(***************************************************************************)
(* parse of the Kotlin port (part_002, lines 90-230): the loop over the    *)
(* rules, where its text is not that of ptt.go                             *)
(***************************************************************************)

\* part_002 lines 128-132: hasBefore is taken over every entry of the map,
\* the rule's own field included
KotlinShouldSkip(h, result, idxs) ==
    /\ h.SkipIfFirst
    /\ \E f \in DOMAIN result : f # h.Field
    /\ ~\E f \in DOMAIN result : result[f].mIndex <= idxs[1]

\* part_002 lines 149-160: matchedPart; a group that took no part in the
\* match leaves rawMatchedPart unless valueGroup is 0
KotlinMatchedPart(h, title, idxs) ==
    IF Len(idxs) > 2
    THEN IF h.ValueGroup = 0 THEN Sub(title, idxs[3], idxs[4])
         ELSE IF Len(idxs) > h.ValueGroup * 2
                 /\ idxs[2 * h.ValueGroup + 1] >= 0 /\ idxs[2 * h.ValueGroup + 2] >= 0
         THEN Sub(title, idxs[2 * h.ValueGroup + 1], idxs[2 * h.ValueGroup + 2])
         ELSE Sub(title, idxs[1], idxs[2])
    ELSE Sub(title, idxs[1], idxs[2])

\* part_002 lines 146-185, the match idxs having passed the checks:
\* shouldSkipFromTitle of line 164 is computed and never read, skipFromTitle
\* stays the rule's
KotlinMatched(w, h, idxs) ==
    LET title == w.st.title
        field == h.Field
        m0 == IF w.found THEN w.m
              ELSE IF has_value_set(field)
                   THEN [parseMeta EXCEPT !.value = SetV(EmptyValueSet)]
                   ELSE parseMeta
        m1 == [m0 EXCEPT !.mIndex = idxs[1], !.mValue = Sub(title, idxs[1], idxs[2]),
                         !.value = MatchedValue(field, @, KotlinMatchedPart(h, title, idxs))]
        g == h.MatchGroup
        m2 == IF g # 0 /\ idxs[2 * g + 1] >= 0 /\ idxs[2 * g + 2] >= 0
              THEN [m1 EXCEPT !.mIndex = idxs[2 * g + 1],
                              !.mValue = Sub(title, idxs[2 * g + 1], idxs[2 * g + 2])]
              ELSE m1
    IN IF Len(idxs) > 2 /\ h.ValueGroup = 0 /\ ~SliceOK(title, idxs[3], idxs[4])
       THEN Raise(w, BoundsError)
       ELSE IF g # 0 /\ 2 * g + 2 > Len(idxs)
       THEN Raise(w, BoundsError)
       ELSE Hold([w EXCEPT !.found = TRUE], h, m2)

\* part_002 lines 108-185, idxs being what the pattern found in the title
KotlinMatchPart(w, h, idxs) ==
    IF Len(idxs) = 0 THEN Continue(w)
    ELSE IF ~ValidateMatch(h.ValidateMatch, w.st.title, idxs) THEN Continue(w)
    ELSE IF KotlinShouldSkip(h, w.st.result, idxs) THEN Skip(w)
    ELSE IF SkipIfBefore(h, w.st.result, idxs) THEN Skip(w)
    ELSE KotlinMatched(w, h, idxs)

\* part_002 lines 103-186
KotlinPatternPart(w, h) ==
    IF h.Pattern.ng < 0 THEN w
    ELSE IF w.found /\ ~h.KeepMatching THEN Continue(w)
    ELSE KotlinMatchPart(w, h, FindStringSubmatchIndex(h.Pattern, w.st.title))

\* one iteration of the loop of part_002 lines 98-230 for rule h from state
\* st; lines 188-229 are lines 252-292 of ptt.go
KotlinIteration(st, h) ==
    Rest(KotlinPatternPart(Work([st EXCEPT !.last = NotFinalized],
                                IF h.Field \in DOMAIN st.result
                                THEN st.result[h.Field] ELSE parseMeta,
                                h.Field \in DOMAIN st.result, h.SkipFromTitle, FALSE),
                           h),
         h)

\* lines 165-166: the state before the first rule for the title of line 164
Fresh(title) ==
    [title |-> title, result |-> EmptyMap, endOfTitle |-> Len(title), fault |-> "nil",
     last |-> NotFinalized]

\* lines 165-166 without the replacements of lines 163-164
BeginRaw(title) == Fresh(title)

\* lines 163-166: the state before the first rule
Begin(title) ==
    Fresh(ReplaceAllString(underscores_regex,
                           ReplaceAllString(whitespaces_regex, title, <<" ">>), <<" ">>))

(***************************************************************************)
(* clean_title (ptt.go)                                                    *)
(***************************************************************************)

russian_cast_regex ==
    Re(2, Alt(<<Cat(<<Grp(1, Cat(<<Lit(<<"(">>), Star(NSet({")"})), Set(NonEnglish),
        Star(NSet({")"})), Lit(<<")">>)>>)), Eol>>), Cat(<<Lit(<<"/">>), RepLazy(AnyCh, 0, -1),
        Grp(2, Cat(<<Lit(<<"(">>), Star(AnyCh), Lit(<<")">>)>>)), Eol>>)>>))

alt_titles_regex ==
    Re(0, Alt(<<Cat(<<Star(NSet({"/", "|", "("})), Set(NonEnglish), Star(NSet({"/", "|"})),
        Set({"/", "|"})>>), Cat(<<Set({"/", "|"}), Star(NSet({"/", "|", "("})),
        Set(NonEnglish), Star(NSet({"/", "|"}))>>)>>))

not_only_non_english_regex ==
    Re(2, Alt(<<Cat(<<Set(LowerAZ \cup UpperAZ), Plus(NSet(NonEnglish)), Grp(1,
        Cat(<<Set(NonEnglish), Star(AnyCh), Set(NonEnglish)>>))>>), Cat(<<Grp(2,
        Cat(<<Set(NonEnglish), Star(AnyCh), Set(NonEnglish)>>)), Plus(NSet(NonEnglish)),
        Set(LowerAZ \cup UpperAZ)>>)>>))

not_allowed_symbols_at_start_and_end_regex ==
    Re(0, Alt(<<Cat(<<Bol, Plus(NSet(WordCh \cup NonEnglish \cup {"#", "[", "<lb>",
        "<star>"}))>>), Cat(<<Plus(Set({" ", "-", ":", "/", "\\", "[", "|", "{", "(", "#", "$",
        "&", "^"})), Eol>>)>>))

remaining_not_allowed_symbols_at_start_and_end_regex ==
    Re(0, Alt(<<Cat(<<Bol, Plus(NSet(WordCh \cup NonEnglish \cup {"#"}))>>),
        Cat(<<Plus(Set({"[", "]", "(", "{", "}", " "})), Eol>>)>>))

movie_indicator_regex ==
    Re(0, Cat(<<Set({"[", "("}), LitI(<<"m", "o", "v", "i", "e">>), Set({")", "]"})>>))

release_group_marking_at_start_regex ==
    Re(1, Cat(<<Bol, Set({"[", "<lb>", "<star>"}), Star(AnyCh), Set({"]", "<rb>",
        "<star>"}), Opt(Set({" ", "."})), Grp(1, Plus(AnyCh))>>))

release_group_marking_at_end_regex ==
    Re(1, Cat(<<Grp(1, Plus(AnyCh)), Opt(Set({" ", "."})), Set({"[", "<lb>", "<star>"}),
        Star(AnyCh), Set({"]", "<rb>", "<star>"}), Eol>>))

redundant_symbols_at_end ==
    Re(0, Cat(<<Plus(Set({" ", "-", ":", ".", "/", "\\"})), Eol>>))

\* the white space strings.TrimSpace cuts
TrimCh == SpaceCh \cup {"\n", "\r"}

RECURSIVE TrimLeft(_)
TrimLeft(s) == IF Len(s) > 0 /\ Head(s) \in TrimCh THEN TrimLeft(Tail(s)) ELSE s

RECURSIVE TrimRight(_)
TrimRight(s) ==
    IF Len(s) > 0 /\ s[Len(s)] \in TrimCh THEN TrimRight(Sub(s, 0, Len(s) - 1)) ELSE s

\* strings.TrimSpace
TrimSpace(s) == TrimRight(TrimLeft(s))

RECURSIVE ReplaceAll(_, _, _)
\* strings.ReplaceAll(s, old, new) for a one-character old
ReplaceAll(s, old, new) ==
    IF Len(s) = 0 THEN <<>>
    ELSE (IF Head(s) = old THEN new ELSE <<Head(s)>>) \o ReplaceAll(Tail(s), old, new)

\* strings.Replace(s, old, "", 1)
RemoveFirst(s, old) ==
    IF ~Contains(s, old) THEN s
    ELSE LET i == CHOOSE i \in 0..(Len(s) - Len(old)) :
                     /\ Sub(s, i, i + Len(old)) = old
                     /\ \A j \in 0..(i - 1) : Sub(s, j, j + Len(old)) # old
         IN Sub(s, 0, i) \o From(s, i + Len(old))

\* strings.Count(s, c) for a one-character c
Count(s, c) == Cardinality({i \in 1..Len(s) : s[i] = c})

\* the text of group g of the match c of s, "" for a group not taken
GroupText(s, c, g) ==
    IF c[2 * g + 1] < 0 THEN <<>> ELSE Sub(s, c[2 * g + 1], c[2 * g + 2])

\* lines 41-48 and 52-57: the groups 1 and 2 of the match of re, each cut
\* from the title once.  (Both patterns of lines 41 and 52 are matched once:
\* russian_cast_regex ends at the end of the title.)
RemoveMatch(title, c) ==
    IF Len(c) = 0 THEN title
    ELSE RemoveFirst(RemoveFirst(title, GroupText(title, c, 1)), GroupText(title, c, 2))

\* lines 41-48 and 52-57 for the pattern re
RemoveGroups(re, title) == RemoveMatch(title, FindStringSubmatchIndex(re, title))

curly_brackets == <<"{", "}">>

square_brackets == <<"[", "]">>

parentheses == <<"(", ")">>

brackets == <<curly_brackets, square_brackets, parentheses>>

\* the brackets left as they are, whatever their counts
KeepBrackets(title, j) == title

RECURSIVE Balance(_, _)
\* lines 64-68 from the j-th pair of brackets on
Balance(title, j) ==
    IF j > Len(brackets) THEN title
    ELSE LET b == brackets[j]
         IN Balance(IF Count(title, b[1]) # Count(title, b[2])
                    THEN ReplaceAll(ReplaceAll(title, b[1], <<>>), b[2], <<>>)
                    ELSE title,
                    j + 1)

\* lines 36-40
StripIndicators(rawTitle) ==
    ReplaceAllString(not_allowed_symbols_at_start_and_end_regex,
        ReplaceAllString(movie_indicator_regex,
            ReplaceAll(TrimSpace(rawTitle), "_", <<" ">>), <<>>), <<>>)

\* lines 49-51
StripMarkings(title) ==
    ReplaceAllString(alt_titles_regex,
        ReplaceAllString(release_group_marking_at_end_regex,
            ReplaceAllString(release_group_marking_at_start_regex, title, <<"$1">>),
            <<"$1">>), <<>>)

\* every dot replaced, whatever the title holds
DotsAlways(title) == ReplaceAll(title, ".", <<" ">>)

\* lines 60-62
DotsToSpaces(title) ==
    IF ~Contains(title, <<" ">>) /\ Contains(title, <<".">>)
    THEN ReplaceAll(title, ".", <<" ">>) ELSE title

\* lines 70-73
StripEnd(title) ==
    TrimSpace(ReplaceAllString(whitespaces_regex,
        ReplaceAllString(redundant_symbols_at_end, title, <<>>), <<" ">>))

\* lines 36-58
StripStart(rawTitle) ==
    ReplaceAllString(remaining_not_allowed_symbols_at_start_and_end_regex,
        RemoveGroups(not_only_non_english_regex,
            StripMarkings(RemoveGroups(russian_cast_regex, StripIndicators(rawTitle)))),
        <<>>)

clean_title(rawTitle) ==
    StripEnd(Balance(DotsToSpaces(StripStart(rawTitle)), 1))

(***************************************************************************)
(* The assembly of the Result (ptt.go, lines 295-404)                      *)
(***************************************************************************)

\* the cases of the switch of line 297: the field of Result each assigns
ResultField ==
    [audio |-> "Audio", bitDepth |-> "BitDepth", channels |-> "Channels",
     codec |-> "Codec", commentary |-> "Commentary", complete |-> "Complete",
     container |-> "Container", convert |-> "Convert", date |-> "Date",
     documentary |-> "Documentary", dubbed |-> "Dubbed", edition |-> "Edition",
     episodeCode |-> "EpisodeCode", episodes |-> "Episodes", extended |-> "Extended",
     extension |-> "Extension", group |-> "Group", hardcoded |-> "Hardcoded",
     hdr |-> "HDR", languages |-> "Languages", network |-> "Network",
     proper |-> "Proper", region |-> "Region", remastered |-> "Remastered",
     repack |-> "Repack", resolution |-> "Resolution", retail |-> "Retail",
     seasons |-> "Seasons", size |-> "Size", site |-> "Site", quality |-> "Quality",
     releaseTypes |-> "ReleaseTypes", subbed |-> "Subbed", threeD |-> "ThreeD",
     uncensored |-> "Uncensored", unrated |-> "Unrated", upscaled |-> "Upscaled",
     volumes |-> "Volumes", year |-> "Year"]

\* the type each case asserts of the value
AssertedType(field) ==
    CASE field \in {"audio", "channels", "hdr", "languages", "releaseTypes"} -> "*value_set"
      [] field \in {"commentary", "complete", "convert", "documentary", "dubbed",
                    "extended", "hardcoded", "proper", "remastered", "repack", "retail",
                    "subbed", "uncensored", "unrated", "upscaled"} -> "bool"
      [] field \in {"episodes", "seasons", "volumes"} -> "[]int"
      [] OTHER -> "string"

\* one iteration of the loop of line 295: the Result after the case of
\* field for the value v, and the fault of its type assertion
Assign(r, field, v) ==
    IF field \notin DOMAIN ResultField THEN [r |-> r, fault |-> "nil"]
    ELSE IF v.k # AssertedType(field) THEN [r |-> r, fault |-> TypeAssertionError]
    ELSE [r |-> [r EXCEPT ![ResultField[field]] =
                    CASE v.k = "*value_set" -> v.set.values
                      [] v.k = "bool" -> v.b
                      [] v.k = "[]int" -> v.n
                      [] v.k = "string" -> v.s],
          fault |-> "nil"]

\* max(min(endOfTitle, len(title) - 1), 0)
TitleEndShort(st) ==
    LET lo == IF st.endOfTitle < Len(st.title) - 1 THEN st.endOfTitle ELSE Len(st.title) - 1
    IN IF lo > 0 THEN lo ELSE 0

\* max(min(endOfTitle, len(title)), 0)
TitleEnd(st) ==
    LET lo == IF st.endOfTitle < Len(st.title) THEN st.endOfTitle ELSE Len(st.title)
    IN IF lo > 0 THEN lo ELSE 0

\* the whole of what is left of the title, whatever endOfTitle
WholeTitle(st) == st.title

\* line 404
RawTitle(st) == Sub(st.title, 0, TitleEnd(st))

(***************************************************************************)
(* Parse and GetPartialParser (ptt.go, lines 409-429)                      *)
(***************************************************************************)

Range(q) == {q[j] : j \in 1..Len(q)}

\* every rule of the table, whatever fieldNames
AllHandlers(fieldNames) == handlers

\* the selectedHandlers of GetPartialParser(fieldNames)
GetPartialParser(fieldNames) ==
    SelectSeq(handlers, LAMBDA h : h.Field \in Range(fieldNames))

(***************************************************************************)
(* The calls: titles, parsers and rule tables                              *)
(***************************************************************************)

\* the most tokens a generated title is joined from
MaxTokens == 2

Tokens == {<<"M", "o", "v", "i", "e">>, <<"2", "0", "2", "3">>, <<"1", "0", "8", "0", "p">>,
           <<"B", "l", "u", "R", "a", "y">>, <<"x", "2", "6", "4">>, <<"R", "5">>}

Prefixes == {<<>>, <<"w", "w", "w", ".", "s", "i", "t", "e", ".", "c", "o", "m", " ", "-", " ">>,
             <<"[", "G", "r", "p", "]", " ">>}

Suffixes == {<<>>, <<"-", "G", "R", "O", "U", "P">>}

\* the example titles of the README and of the tests
ExampleTitle ==
    <<"T", "h", "e", ".", "M", "o", "v", "i", "e", ".", "2", "0", "2", "3", ".", "1", "0", "8", "0", "p", ".", "B", "l", "u", "R", "a", "y", ".", "x", "2", "6", "4", "-", "G", "R", "O", "U", "P">>

NormalizationTitle ==
    <<"M", "o", "v", "i", "e", ".", "2", "0", "2", "3", ".", "1", "0", "8", "0", "p", ".", "A", "C", "3">>

\* a title with a volume after its year, and one with a volume and no year
VolumeTitle ==
    <<"M", "o", "v", "i", "e", ".", "2", "0", "2", "3", ".", "V", "o", "l", "2">>

VolumeOnlyTitle == <<"M", "o", "v", "i", "e", ".", "V", "o", "l", "2">>

\* a title whose resolution is in its leading bracket
BracketedTitle ==
    <<"[", "1", "0", "8", "0", "p", "]", " ", "M", "o", "v", "i", "e", ".", "2", "0", "2", "3">>

\* a title whose quality is after its resolution and is part of the text of
\* its leading bracket
QualityBracketTitle ==
    <<"[", "A", "R", "5", "]", " ", "M", "o", "v", "i", "e", ".", "1", "0", "8", "0", "p", ".", "R", "5">>

\* a title whose year is in its leading bracket, before its resolution
YearBracketTitle ==
    <<"[", "2", "0", "2", "3", "]", " ", "M", "o", "v", "i", "e", ".", "1", "0", "8", "0", "p", ".", "x", "2", "6", "4">>

\* a title whose volumes are a descending pair
VolumeRangeTitle ==
    <<"M", "o", "v", "i", "e", ".", "V", "o", "l", ".", "3", "-", "1">>

\* titles with a range of years, descending and ascending
YearsDownTitle ==
    <<"M", "o", "v", "i", "e", ".", "2", "0", "2", "3", "-", "2", "0", "2", "0">>

YearsUpTitle ==
    <<"M", "o", "v", "i", "e", ".", "2", "0", "2", "0", "-", "2", "0", "2", "3">>

\* a title with a range of volumes and a further volume
VolumesTwiceTitle ==
    <<"M", "o", "v", "i", "e", ".", "V", "o", "l", ".", "1", "-", "3", ".", "V", "o", "l", ".", "5">>

\* titles with two codecs and with two audio formats
CodecsTitle ==
    <<"M", "o", "v", "i", "e", ".", "x", "2", "6", "4", ".", "H", "E", "V", "C">>

AudiosTitle == <<"M", "o", "v", "i", "e", ".", "D", "D", ".", "A", "C", "3">>

\* titles that begin with a season and an episode, without and with a year
SeasonTitle == <<"1", ".", "0", "2", " ", "-", " ", "M", "o", "v", "i", "e">>

SeasonYearTitle ==
    <<"1", ".", "0", "2", " ", "-", " ", "M", "o", "v", "i", "e", ".", "2", "0", "2", "3">>

\* a title with a resolution in its leading bracket, after the group
GroupResolutionTitle ==
    <<"[", "G", "r", "p", " ", "1", "0", "8", "0", "p", "]", " ", "M", "o", "v", "i", "e">>

\* a title whose codec is joined, inside the leading bracket, by the removal
\* of the year
JoinedCodecTitle ==
    <<"[", "H", "E", "[", "2", "0", "2", "3", "]", "V", "C", "]">>

\* a title no rule matches, with an underscore and a run of spaces
PlainTitle == <<"T", "h", "e", "_", "M", "o", "v", "i", "e", " ", " ", "N", "a", "m", "e">>

RECURSIVE Join(_)
\* strings.Join(q, ".")
Join(q) == IF Len(q) = 1 THEN q[1] ELSE q[1] \o <<".">> \o Join(Tail(q))

\* the sequences of 1..MaxTokens distinct tokens
TokenSeqs ==
    UNION {{q \in [1..k -> Tokens] : \A a, b \in 1..k : a # b => q[a] # q[b]}
           : k \in 1..MaxTokens}

Titles ==
    {pre \o Join(q) \o suf : pre \in Prefixes, q \in TokenSeqs, suf \in Suffixes}
        \cup {ExampleTitle, NormalizationTitle, PlainTitle, VolumeTitle, VolumeOnlyTitle,
              BracketedTitle, QualityBracketTitle, YearBracketTitle, VolumeRangeTitle,
              YearsDownTitle, YearsUpTitle, VolumesTwiceTitle, CodecsTitle, AudiosTitle,
              SeasonTitle, SeasonYearTitle, GroupResolutionTitle,
              JoinedCodecTitle}

\* the field lists the partial parsers are asked for
FieldLists == {<<"title", "year", "resolution">>, <<"region", "quality", "group">>}

\* a rule for the bool field "extended" whose value is a string, and a rule
\* for the value-set field "audio" whose transformer asserts a string: the
\* misconfigured rules that make a call fault
extended_554 == [year_554 EXCEPT !.Field = "extended"]

audio_1249 == [codec_1249 EXCEPT !.Field = "audio"]

FaultTables ==
    <<<<resolution_419, extended_554>>,
      <<resolution_419, codec_1249, extended_554>>,
      <<resolution_419, year_554, audio_1249>>>>

\* a parser: Parse, the closure of GetPartialParser(fieldNames), or parse
\* with the table FaultTables[table]
FullParser == [kind |-> "Parse", fieldNames |-> <<>>, table |-> 0]

PartialParser(fieldNames) ==
    [kind |-> "GetPartialParser", fieldNames |-> fieldNames, table |-> 0]

TableParser(k) == [kind |-> "parse", fieldNames |-> <<>>, table |-> k]

PublicParsers == {FullParser} \cup {PartialParser(l) : l \in FieldLists}

FaultParsers == {TableParser(k) : k \in DOMAIN FaultTables}

\* the table the parser hands to parse
HandlersOf(p) ==
    CASE p.kind = "Parse" -> handlers
      [] p.kind = "GetPartialParser" -> GetPartialParser(p.fieldNames)
      [] p.kind = "parse" -> FaultTables[p.table]

\* the place of rule h in the table handlers, 0 when it is not one of them
Position(h) ==
    IF \E k \in DOMAIN handlers : handlers[k] = h
    THEN CHOOSE k \in DOMAIN handlers : handlers[k] = h
    ELSE 0

(***************************************************************************)
(* The Results handed to Normalize and the strings appended to a value set *)
(***************************************************************************)

\* the longest audio list of a Result handed to Normalize
MaxAudio == 2

\* the most applications of Normalize to one Result
MaxNormalize == 2

\* the most appends to one value set
MaxAppends == 4

AudioNames == {s_AC3, s_EAC3, s_DD}

AudioLists == UNION {[1..k -> AudioNames] : k \in 0..MaxAudio}

Codecs ==
    {<<>>, <<"a", "v", "c">>, <<"h", "2", "6", "4">>, <<"x", "2", "6", "4">>, <<"X", "2", "6", "4">>,
     <<"h", "e", "v", "c">>, <<"h", "2", "6", "5">>, <<"x", "2", "6", "5">>, <<"m", "p", "e", "g", "2">>,
     <<"d", "i", "v", "x">>, <<"d", "v", "i", "x">>, <<"x", "v", "i", "d">>, <<"v", "p", "9">>,
     <<"V", "P", "9">>}

ReleaseTypeLists ==
    {<<>>, <<<<"O", "A", "V">>>>, <<<<"O", "D", "A">>>>, <<<<"O", "V", "A">>, <<"O", "A", "V">>>>,
     <<<<"O", "A", "D">>, <<"O", "D", "A">>, <<"O", "A", "V">>>>}

Resolutions == {<<>>, <<"2", "1", "6", "0", "p">>, <<"1", "4", "4", "0", "p">>,
                <<"1", "0", "8", "0", "p">>, <<"1", "0", "8", "0", "P">>}

\* the Results: the four fields Normalize reads drawn from the sets above,
\* with or without an error, normalized or not, the other fields fixed
NormalizeInputs ==
    {[ZeroResult EXCEPT !.Audio = audio, !.Codec = codec, !.ReleaseTypes = releaseTypes,
                        !.Resolution = resolution, !.err = err, !.is_normalized = n,
                        !.Title = <<"M", "o", "v", "i", "e">>, !.Year = <<"2", "0", "2", "3">>,
                        !.Extended = TRUE, !.Seasons = <<1>>]
     : audio \in AudioLists, codec \in Codecs, releaseTypes \in ReleaseTypeLists,
       resolution \in Resolutions, err \in {"nil", TypeAssertionError}, n \in BOOLEAN}

\* the strings appended to a value set
AppendValues == {<<"e", "n">>, <<"r", "u">>, <<"A", "C", "3">>}

\* the titles of the calls that run at the same time
ConcurrentTitles ==
    {NormalizationTitle, PlainTitle,
     <<"[", "G", "r", "p", "]", " ", "M", "o", "v", "i", "e", ".", "R", "5">>}

\* the most pieces a string handed to clean_title is written from
MaxPieces == 3

Pieces ==
    {<<"A", "b">>, <<"C", ".", "d">>, <<"[">>, <<"]">>, <<"(">>, <<")">>, <<"{">>, <<"}">>,
     <<".">>, <<" ">>}

RECURSIVE Concat(_)
Concat(q) == IF Len(q) = 0 THEN <<>> ELSE Head(q) \o Concat(Tail(q))

\* the title of the test testTitleCleaning
DottedTitle ==
    <<"T", "h", "e", ".", "M", "o", "v", "i", "e", ".", "2", "0", "2", "3", ".", "1", "0", "8", "0", "p">>

\* the example of an open bracket left alone
BracketTitle == <<"T", "i", "t", "l", "e", " ", "[", "G", "r", "o", "u", "p">>

\* the strings handed to clean_title
CleanInputs ==
    {Concat(q) : q \in UNION {[1..n -> Pieces] : n \in 0..MaxPieces}}
        \cup {DottedTitle, BracketTitle}

\* the most numbers a string handed to to_int_range holds
MaxNums == 3

\* the largest of these numbers
MaxNum == 5

RECURSIVE JoinNums(_, _)
\* the numbers written in decimal with sep between them
JoinNums(nums, sep) ==
    IF Len(nums) = 1 THEN Itoa(nums[1])
    ELSE Itoa(nums[1]) \o sep \o JoinNums(Tail(nums), sep)

\* the values to_int_range is applied to: the strings "a", "a-b", "a,b",
\* "a-b-c", ... with the numbers they were written from, and a value that is
\* no string
IntRangeInputs ==
    {[value |-> StrV(JoinNums(nums, <<sep>>)), nums |-> nums, sep |-> sep]
     : nums \in UNION {[1..n -> 0..MaxNum] : n \in 1..MaxNums}, sep \in {"-", ","}}
    \cup {[value |-> BoolV(TRUE), nums |-> <<>>, sep |-> "-"]}

\* the years written in the values to_year is applied to
StartYears == {1999, 2000, 2019, 2023}

EndYears == {1998, 1999, 2000, 2019, 2024}

\* the ends written with two digits
ShortEnds == {0, 19, 20, 23, 99}

\* what the year rules write between two years
YearSeparators == {<<"-">>, <<" ", "-", " ">>, <<".", "-">>}

\* the values to_year is applied to, with the numbers they were written
\* from: "start", "start-end" with an end of four digits and of two digits
YearInputs ==
    {[value |-> Itoa(start), start |-> start, end |-> 0, digits |-> 0] : start \in StartYears}
    \cup {[value |-> Itoa(start) \o sep \o Itoa(end), start |-> start, end |-> end, digits |-> 4]
          : start \in StartYears, end \in EndYears, sep \in YearSeparators}
    \cup {[value |-> Itoa(start) \o sep \o <<DigitChar(end \div 10), DigitChar(end % 10)>>,
           start |-> start, end |-> end, digits |-> 2]
          : start \in StartYears, end \in ShortEnds, sep \in YearSeparators}

(***************************************************************************)
(* The state machine                                                       *)
(***************************************************************************)

VARIABLES
    input,      \* the title handed to the parser
    parser,     \* the parser called
    st,         \* parse: title, result, endOfTitle, the fault raised
    i,          \* parse: the place in the table of the next rule
    pc,         \* parse: "rules", "assemble" or "done"
    visited,    \* parse: the fields the assembly loop has been through
    r,          \* parse: the Result r
    ran,        \* the rules iterated so far: place in handlers, finalized or not
    first,      \* the Result of the first call, once a second call was made
    res,        \* the Result Normalize is applied to
    before,     \* that Result as it was drawn
    applied,    \* the number of applications of Normalize
    vs,         \* a value set
    log,        \* the strings appended to it, in order
    arg,        \* the argument of a transformer or of clean_title
    stage,      \* how far that call has come
    ret,        \* the value it has left so far
    peer,       \* a second call running at the same time: its locals
    kotlin      \* the Kotlin parse called with the same rules and title: its locals

vars == <<input, parser, st, i, pc, visited, r, ran, first, res, before, applied, vs, log,
          arg, stage, ret, peer, kotlin>>

parseVars == <<input, parser, st, i, pc, visited, r, ran, first>>

normalizeVars == <<res, before, applied>>

setVars == <<vs, log>>

funcVars == <<arg, stage, ret, peer, kotlin>>

NoFirst == [set |-> FALSE, r |-> ZeroResult]

\* a call parser(title) at line 151
Call(title, p) ==
    /\ input = title
    /\ parser = p
    /\ st = Begin(title)
    /\ i = 1
    /\ pc = IF Len(HandlersOf(p)) = 0 THEN "assemble" ELSE "rules"
    /\ visited = {}
    /\ r = ZeroResult
    /\ ran = <<>>
    /\ first = NoFirst

NoCall ==
    /\ input = <<>>
    /\ parser = FullParser
    /\ st = Begin(<<>>)
    /\ i = 1
    /\ pc = "done"
    /\ visited = {}
    /\ r = ZeroResult
    /\ ran = <<>>
    /\ first = NoFirst

NoNormalize == res = ZeroResult /\ before = ZeroResult /\ applied = 0

NoSet == vs = EmptyValueSet /\ log = <<>>

NoPeer == peer = <<>>

NoKotlin == kotlin = <<>>

NoFunc == arg = <<>> /\ stage = "none" /\ ret = <<>> /\ NoPeer /\ NoKotlin

\* one iteration of the loop of lines 168-293; a panic in it ends the call
\* in the deferred function of lines 153-161
ParseRule ==
    /\ pc = "rules"
    /\ LET hs == HandlersOf(parser)
       IN \E st2 \in Iteration(st, hs[i]) :
              /\ st' = st2
              /\ i' = i + 1
              /\ ran' = Append(ran, [rule |-> Position(hs[i]),
                                     finalized |-> st2.last.finalized])
              /\ IF st2.fault # "nil"
                 THEN pc' = "done" /\ r' = [r EXCEPT !.err = st2.fault]
                 ELSE pc' = (IF i = Len(hs) THEN "assemble" ELSE "rules") /\ r' = r
    /\ UNCHANGED <<input, parser, visited, first, normalizeVars, setVars, funcVars>>

\* one iteration of the loop of lines 295-402, for any field the map may
\* yield next; a panic in it ends the call in the deferred function
AssembleField ==
    /\ pc = "assemble"
    /\ \E field \in DOMAIN st.result \ visited :
           LET a == Assign(r, field, st.result[field].value)
           IN IF a.fault # "nil"
              THEN /\ r' = [r EXCEPT !.err = a.fault]
                   /\ st' = [st EXCEPT !.fault = a.fault]
                   /\ pc' = "done"
                   /\ visited' = visited
              ELSE /\ r' = a.r
                   /\ st' = st
                   /\ pc' = pc
                   /\ visited' = visited \cup {field}
    /\ UNCHANGED <<input, parser, i, ran, first, normalizeVars, setVars, funcVars>>

\* lines 404-406
Finish ==
    /\ pc = "assemble"
    /\ visited = DOMAIN st.result
    /\ r' = [r EXCEPT !.Title = clean_title(RawTitle(st))]
    /\ pc' = "done"
    /\ UNCHANGED <<input, parser, st, i, visited, ran, first, normalizeVars, setVars, funcVars>>

\* the same parser called again on the same title
Again ==
    /\ pc = "done"
    /\ ~first.set
    /\ first' = [set |-> TRUE, r |-> r]
    /\ st' = Begin(input)
    /\ i' = 1
    /\ pc' = (IF Len(HandlersOf(parser)) = 0 THEN "assemble" ELSE "rules")
    /\ visited' = {}
    /\ r' = ZeroResult
    /\ ran' = <<>>
    /\ UNCHANGED <<input, parser, normalizeVars, setVars, funcVars>>

\* res.Normalize()
NormalizeStep ==
    /\ applied < MaxNormalize
    /\ res' = Normalize(res)
    /\ applied' = applied + 1
    /\ UNCHANGED <<before, parseVars, setVars, funcVars>>

\* vs.append(v)
AppendStep ==
    /\ Len(log) < MaxAppends
    /\ \E v \in AppendValues :
           /\ vs' = append(vs, v)
           /\ log' = Append(log, v)
    /\ UNCHANGED <<parseVars, normalizeVars, funcVars>>

\* the locals of a second call parser(title) at line 151; during: it has
\* taken a step while the first call was between its first rule and its end
PeerCall(title, p) ==
    [input |-> title, parser |-> p, st |-> Begin(title), i |-> 1,
     pc |-> IF Len(HandlersOf(p)) = 0 THEN "assemble" ELSE "rules",
     visited |-> {}, r |-> ZeroResult, during |-> FALSE]

\* the first call is between its first rule and its end
Running == i > 1 /\ pc # "done"

\* a call working on a field-state map that all the calls share
LocalsShared(own, others) == [own EXCEPT !.result = others.result]

\* the title, the field-state map and the boundary a call works on are the
\* ones it made at lines 163-166, whatever the other calls hold
Locals(own, others) == own

\* the second call after an iteration of the loop of lines 168-293 left st2
PeerAfterRule(c, st2) ==
    [c EXCEPT !.st = st2, !.i = @ + 1,
              !.pc = IF st2.fault # "nil" THEN "done"
                     ELSE IF c.i = Len(HandlersOf(c.parser)) THEN "assemble" ELSE "rules",
              !.r = IF st2.fault # "nil" THEN [@ EXCEPT !.err = st2.fault] ELSE @]

\* the second call after an iteration of the loop of lines 295-402 for field
PeerAfterField(c, field, a) ==
    IF a.fault # "nil"
    THEN [c EXCEPT !.r = [@ EXCEPT !.err = a.fault], !.st = [@ EXCEPT !.fault = a.fault],
                   !.pc = "done"]
    ELSE [c EXCEPT !.r = a.r, !.visited = @ \cup {field}]

\* ParseRule in the second call
PeerRule ==
    /\ peer.pc = "rules"
    /\ \E st2 \in Iteration(Locals(peer.st, st), HandlersOf(peer.parser)[peer.i]) :
           peer' = [PeerAfterRule(peer, st2) EXCEPT !.during = @ \/ Running]
    /\ UNCHANGED <<arg, stage, ret, kotlin, parseVars, normalizeVars, setVars>>

\* AssembleField in the second call
PeerAssemble ==
    /\ peer.pc = "assemble"
    /\ \E field \in DOMAIN peer.st.result \ peer.visited :
           peer' = [PeerAfterField(peer, field,
                                   Assign(peer.r, field, peer.st.result[field].value))
                    EXCEPT !.during = @ \/ Running]
    /\ UNCHANGED <<arg, stage, ret, kotlin, parseVars, normalizeVars, setVars>>

\* Finish in the second call
PeerFinish ==
    /\ peer.pc = "assemble"
    /\ peer.visited = DOMAIN peer.st.result
    /\ peer' = [peer EXCEPT !.r = [@ EXCEPT !.Title = clean_title(RawTitle(peer.st))],
                            !.pc = "done", !.during = @ \/ Running]
    /\ UNCHANGED <<arg, stage, ret, kotlin, parseVars, normalizeVars, setVars>>

\* to_int_range()(title, m, result) with m.value = arg.value
IntRangeStep ==
    /\ stage = "call"
    /\ ret' = to_int_range([parseMeta EXCEPT !.value = arg.value]).value
    /\ stage' = "done"
    /\ UNCHANGED <<arg, peer, kotlin, parseVars, normalizeVars, setVars>>

\* to_year()(title, m, result) with m.value = arg.value
YearStep ==
    /\ stage = "call"
    /\ ret' = to_year([parseMeta EXCEPT !.value = StrV(arg.value)]).value
    /\ stage' = "done"
    /\ UNCHANGED <<arg, peer, kotlin, parseVars, normalizeVars, setVars>>

\* clean_title(arg), lines 36-58
CleanStart ==
    /\ stage = "raw"
    /\ ret' = <<StripStart(arg)>>
    /\ stage' = "stripped"
    /\ UNCHANGED <<arg, peer, kotlin, parseVars, normalizeVars, setVars>>

\* lines 60-62
CleanDots ==
    /\ stage = "stripped"
    /\ ret' = Append(ret, DotsToSpaces(ret[1]))
    /\ stage' = "dotted"
    /\ UNCHANGED <<arg, peer, kotlin, parseVars, normalizeVars, setVars>>

\* lines 64-68
CleanBrackets ==
    /\ stage = "dotted"
    /\ ret' = Append(ret, Balance(ret[2], 1))
    /\ stage' = "balanced"
    /\ UNCHANGED <<arg, peer, kotlin, parseVars, normalizeVars, setVars>>

\* lines 70-73
CleanEnd ==
    /\ stage = "balanced"
    /\ ret' = Append(ret, StripEnd(ret[3]))
    /\ stage' = "done"
    /\ UNCHANGED <<arg, peer, kotlin, parseVars, normalizeVars, setVars>>

\* Parse and the partial parsers, on every title
\* one iteration of the loop in the Go parse and in the Kotlin parse, both
\* at the same rule; a fault in either ends its call
PortRule ==
    /\ pc = "rules"
    /\ LET hs == HandlersOf(parser)
       IN \E st2 \in Iteration(st, hs[i]), k2 \in KotlinIteration(kotlin, hs[i]) :
              /\ st' = st2
              /\ kotlin' = k2
              /\ i' = i + 1
              /\ ran' = Append(ran, [rule |-> Position(hs[i]),
                                     finalized |-> st2.last.finalized])
              /\ pc' = IF st2.fault # "nil" \/ k2.fault # "nil" THEN "done"
                       ELSE IF i = Len(hs) THEN "assemble" ELSE "rules"
    /\ UNCHANGED <<input, parser, visited, r, first, normalizeVars, setVars, arg, stage, ret,
                   peer>>

Init ==
    /\ \E title \in Titles, p \in PublicParsers : Call(title, p)
    /\ NoNormalize
    /\ NoSet
    /\ NoFunc

Next == ParseRule \/ AssembleField \/ Finish

Spec == Init /\ [][Next]_vars

\* the Go parse and the Kotlin parse given the same rules and the same title
InitPort ==
    /\ \E title \in Titles, p \in PublicParsers : Call(title, p)
    /\ kotlin = st
    /\ NoNormalize
    /\ NoSet
    /\ arg = <<>> /\ stage = "none" /\ ret = <<>> /\ NoPeer

NextPort == PortRule

SpecPort == InitPort /\ [][NextPort]_vars

\* parse with the tables of the misconfigured rules
InitFault ==
    /\ \E title \in Titles, p \in FaultParsers : Call(title, p)
    /\ NoNormalize
    /\ NoSet
    /\ NoFunc

SpecFault == InitFault /\ [][Next]_vars

\* two calls of one parser on one title
InitTwice ==
    /\ \E title \in Titles, p \in {FullParser} \cup FaultParsers : Call(title, p)
    /\ NoNormalize
    /\ NoSet
    /\ NoFunc

NextTwice == ParseRule \/ AssembleField \/ Finish \/ Again

SpecTwice == InitTwice /\ [][NextTwice]_vars

\* Normalize applied again and again to a Result
InitNormalize ==
    /\ NoCall
    /\ \E x \in NormalizeInputs : res = x /\ before = x
    /\ applied = 0
    /\ NoSet
    /\ NoFunc

NextNormalize == NormalizeStep

SpecNormalize == InitNormalize /\ [][NextNormalize]_vars

\* appends to a value set that starts empty (ptt.go, line 234)
InitValueSet ==
    /\ NoCall
    /\ NoNormalize
    /\ vs = EmptyValueSet
    /\ log = <<>>
    /\ NoFunc

NextValueSet == AppendStep

SpecValueSet == InitValueSet /\ [][NextValueSet]_vars

\* two calls of the public parsers running at the same time
InitConcurrent ==
    /\ \E title \in ConcurrentTitles, p \in PublicParsers : Call(title, p)
    /\ NoNormalize
    /\ NoSet
    /\ arg = <<>> /\ stage = "none" /\ ret = <<>>
    /\ \E title \in ConcurrentTitles, p \in PublicParsers : peer = PeerCall(title, p)
    /\ NoKotlin

NextConcurrent ==
    ParseRule \/ AssembleField \/ Finish \/ PeerRule \/ PeerAssemble \/ PeerFinish

SpecConcurrent == InitConcurrent /\ [][NextConcurrent]_vars

\* clean_title applied to a drawn string, step by step: ret holds the title
\* after lines 58, 62, 68 and 73
InitCleanTitle ==
    /\ NoCall
    /\ NoNormalize
    /\ NoSet
    /\ \E x \in CleanInputs : arg = x
    /\ stage = "raw"
    /\ ret = <<>>
    /\ NoPeer
    /\ NoKotlin

NextCleanTitle == CleanStart \/ CleanDots \/ CleanBrackets \/ CleanEnd

SpecCleanTitle == InitCleanTitle /\ [][NextCleanTitle]_vars

\* to_int_range applied to a meta holding a drawn value
InitIntRange ==
    /\ NoCall
    /\ NoNormalize
    /\ NoSet
    /\ \E x \in IntRangeInputs : arg = x
    /\ stage = "call"
    /\ ret = NilV
    /\ NoPeer
    /\ NoKotlin

NextIntRange == IntRangeStep

SpecIntRange == InitIntRange /\ [][NextIntRange]_vars

\* to_year applied to a meta holding a drawn value
InitYear ==
    /\ NoCall
    /\ NoNormalize
    /\ NoSet
    /\ \E x \in YearInputs : arg = x
    /\ stage = "call"
    /\ ret = NilV
    /\ NoPeer
    /\ NoKotlin

NextYear == YearStep

SpecYear == InitYear /\ [][NextYear]_vars


(***************************************************************************)
(* Properties                                                              *)
(***************************************************************************)

\* C1: Normalize is idempotent.  Once Normalize has been applied to a Result,
\* applying it again changes no field of it; and after the first application
\* to a Result without an error the flag is_normalized is set.
C1_NormalizeIdempotent ==
    [][/\ applied' = applied + 1 /\ applied >= 1 => res' = res
       /\ applied' = applied + 1 /\ Error(res) = "nil" => res'.is_normalized]_vars

\* a second application to a Result whose first application mapped mpeg2
C1_Witness ==
    /\ applied = 2
    /\ Error(before) = "nil" /\ ~before.is_normalized
    /\ before.Codec = <<"m", "p", "e", "g", "2">>
    /\ res.Codec = <<"M", "P", "E", "G", "-", "2">>

ClaimedAudio(audio) == Dedup(RenameAudio(audio), {})

ClaimedCodec(codec) ==
    CASE ToLower(codec) \in {<<"a", "v", "c">>, <<"h", "2", "6", "4">>, <<"x", "2", "6", "4">>} -> <<"A", "V", "C">>
      [] ToLower(codec) \in {<<"h", "e", "v", "c">>, <<"h", "2", "6", "5">>, <<"x", "2", "6", "5">>} -> <<"H", "E", "V", "C">>
      [] ToLower(codec) = <<"m", "p", "e", "g", "2">> -> <<"M", "P", "E", "G", "-", "2">>
      [] ToLower(codec) \in {<<"d", "i", "v", "x">>, <<"d", "v", "i", "x">>} -> <<"D", "i", "v", "X">>
      [] ToLower(codec) = <<"x", "v", "i", "d">> -> <<"X", "v", "i", "d">>
      [] OTHER -> codec

ClaimedReleaseTypes(releaseTypes) ==
    [k \in 1..Len(releaseTypes) |->
        IF releaseTypes[k] = <<"O", "A", "V">> THEN <<"O", "V", "A">>
        ELSE IF releaseTypes[k] = <<"O", "D", "A">> THEN <<"O", "A", "D">>
        ELSE releaseTypes[k]]

ClaimedResolution(resolution) ==
    CASE resolution = <<"2", "1", "6", "0", "p">> -> <<"4", "k">>
      [] resolution = <<"1", "4", "4", "0", "p">> -> <<"2", "k">>
      [] OTHER -> resolution

\* C4: Normalize applied to a Result without an error and not yet normalized
\* renames AC3 and EAC3 in audio and removes the duplicates, maps the codec
\* synonyms whatever their case, renames OAV and ODA in the release types,
\* maps the resolutions 2160p and 1440p, and returns every value that is not
\* a listed synonym and every other field unchanged.
C4_NormalizeMapping ==
    applied = 1 /\ Error(before) = "nil" /\ ~before.is_normalized =>
        res = [before EXCEPT !.Audio = ClaimedAudio(before.Audio),
                             !.Codec = ClaimedCodec(before.Codec),
                             !.ReleaseTypes = ClaimedReleaseTypes(before.ReleaseTypes),
                             !.Resolution = ClaimedResolution(before.Resolution),
                             !.is_normalized = TRUE]

\* C5: Normalize applied to a Result that carries an error, or to a Result
\* already normalized, leaves every field, the error and the flag
\* is_normalized as they are.
C5_NormalizeNoOp ==
    [][applied' = applied + 1 /\ (Error(res) # "nil" \/ res.is_normalized)
           => res' = res]_vars

\* Normalize was applied to a Result with an error, not normalized, whose
\* audio and codec hold synonyms
C5_Witness ==
    /\ applied >= 1
    /\ Error(before) # "nil" /\ ~before.is_normalized
    /\ before.Audio = <<s_AC3>> /\ before.Codec = <<"x", "2", "6", "4">>
    /\ res = before

NameToken == <<"M", "o", "v", "i", "e">>

\* the tokens of C6 and the field of each
RecognizedTokens ==
    [Year |-> <<"2", "0", "2", "3">>, Resolution |-> <<"1", "0", "8", "0", "p">>,
     Quality |-> <<"B", "l", "u", "R", "a", "y">>, Codec |-> <<"x", "2", "6", "4">>]

\* the titles of C6 among the generated ones: the name, then recognized
\* tokens, then the group or not
NameFirst(q) ==
    /\ q[1] = NameToken
    /\ \A k \in 2..Len(q) : \E f \in DOMAIN RecognizedTokens : q[k] = RecognizedTokens[f]

\* the Result C6 expects for such a title
Recognized(q, suf) ==
    [f \in DOMAIN RecognizedTokens \cup {"Group", "Title"} |->
        CASE f = "Group" -> IF suf = <<>> THEN <<>> ELSE <<"G", "R", "O", "U", "P">>
          [] f = "Title" -> clean_title(IF Len(q) > 1 THEN NameToken \o <<".">> ELSE NameToken)
          [] OTHER -> IF \E k \in 2..Len(q) : q[k] = RecognizedTokens[f]
                      THEN RecognizedTokens[f] ELSE <<>>]

\* C6: for a title made of a name followed by recognized tokens (year,
\* resolution, quality, codec, -GROUP), Parse reports each token in its field
\* and leaves the other fields zero, and the title is clean_title of the text
\* before the leftmost token; the example title gives "The Movie", "2023",
\* "1080p", "BluRay", "x264".
C6_NameThenTokens ==
    pc = "done" /\ parser = FullParser =>
        /\ \A q \in TokenSeqs, suf \in Suffixes :
               NameFirst(q) /\ input = Join(q) \o suf =>
                   LET e == Recognized(q, suf)
                   IN r = [ZeroResult EXCEPT !.Title = e.Title, !.Year = e.Year,
                                             !.Resolution = e.Resolution,
                                             !.Quality = e.Quality, !.Codec = e.Codec,
                                             !.Group = e.Group]
        /\ input = ExampleTitle =>
               r = [ZeroResult EXCEPT !.Title = <<"T", "h", "e", " ", "M", "o", "v", "i", "e">>,
                                      !.Year = <<"2", "0", "2", "3">>,
                                      !.Resolution = <<"1", "0", "8", "0", "p">>,
                                      !.Quality = <<"B", "l", "u", "R", "a", "y">>,
                                      !.Codec = <<"x", "2", "6", "4">>,
                                      !.Group = <<"G", "R", "O", "U", "P">>]

\* Parse has returned for the example title
C6_Witness ==
    /\ pc = "done" /\ parser = FullParser /\ input = ExampleTitle
    /\ r.Title = <<"T", "h", "e", " ", "M", "o", "v", "i", "e">>
    /\ st.endOfTitle = 10

\* C7: when no rule finalized a field, endOfTitle is still the length of the
\* title as lines 163-164 left it, the Result's title is clean_title of that
\* whole title, and every other field is zero.
C7_NoMatch ==
    pc = "done" /\ (\A k \in DOMAIN ran : ~ran[k].finalized) =>
        LET whole == ReplaceAllString(underscores_regex,
                         ReplaceAllString(whitespaces_regex, input, <<" ">>), <<" ">>)
        IN /\ st.endOfTitle = Len(whole)
           /\ r = [ZeroResult EXCEPT !.Title = clean_title(whole)]

\* Parse has returned for the title with an underscore and two spaces, no
\* rule having matched
C7_Witness ==
    /\ pc = "done" /\ parser = FullParser /\ input = PlainTitle
    /\ Len(ran) = Len(handlers)
    /\ \A k \in DOMAIN ran : ~ran[k].finalized
    /\ r.Title = <<"T", "h", "e", " ", "M", "o", "v", "i", "e", " ", "N", "a", "m", "e">>

\* an iteration of the loop of the rules that went through lines 277-292
\* with m.mIndex = 0
FinalizedAtZero ==
    /\ pc = "rules" /\ i' = i + 1
    /\ st'.last.finalized /\ st'.last.mIndex = 0

\* C8 as stated: a rule finalized with match offset 0 leaves endOfTitle as it
\* was before the rule, its match removed or not.
C8_OffsetZeroKeepsBoundary ==
    [][FinalizedAtZero => st'.endOfTitle = st.endOfTitle]_vars

\* C8: a rule finalized with match offset 0 never sets endOfTitle to its
\* offset; it leaves endOfTitle as it was, unless its match is removed and
\* skip-from-title holds for it and endOfTitle is not 0, and then endOfTitle
\* goes down by the length of the removed text.
C8_OffsetZeroBoundary ==
    [][FinalizedAtZero =>
          st'.endOfTitle =
              IF st'.last.remove /\ st'.last.skipFromTitle /\ 0 < st.endOfTitle
              THEN st.endOfTitle - Len(st'.last.mValue)
              ELSE st.endOfTitle]_vars

\* the site rule has just removed the site at offset 0 and endOfTitle went
\* down by its length
C8_Witness ==
    /\ i = 2 /\ ran[1].rule = 1
    /\ st.last.finalized /\ st.last.mIndex = 0
    /\ st.last.remove /\ st.last.skipFromTitle
    /\ Len(st.last.mValue) > 0
    /\ st.endOfTitle = Len(input) - Len(st.last.mValue)

\* the places in handlers, in order, of the rules with a field of fieldNames
\* or with no field
SelectedPlaces(fieldNames) ==
    SelectSeq([k \in DOMAIN handlers |-> k],
              LAMBDA k : handlers[k].Field \in Range(fieldNames) \/ handlers[k].Field = "")

\* C9: the parser of GetPartialParser(fieldNames) iterates the rules of
\* handlers whose field is in fieldNames, in the order of handlers, and no
\* other rule; no rule of handlers is without a field.
C9_PartialParserRules ==
    parser.kind = "GetPartialParser" =>
        LET places == SelectedPlaces(parser.fieldNames)
        IN /\ Len(ran) <= Len(places)
           /\ \A k \in DOMAIN ran : ran[k].rule = places[k]
           /\ pc # "rules" => Len(ran) = Len(places)
           /\ \A k \in DOMAIN handlers : handlers[k].Field # ""

\* the parser for title, year and resolution has returned, having iterated
\* the resolution rule and the two year rules, on a title with another token
C9_Witness ==
    /\ pc = "done"
    /\ parser = PartialParser(<<"title", "year", "resolution">>)
    /\ input = <<"M", "o", "v", "i", "e", ".", "x", "2", "6", "4", "-", "G", "R", "O", "U", "P">> \/ input = <<"2", "0", "2", "3", ".", "R", "5">>
    /\ Len(ran) = 3 /\ ran[1].rule = 2 /\ ran[2].rule = 3 /\ ran[3].rule = 4

NoDuplicate(values) ==
    \A a, b \in DOMAIN values : a # b => values[a] # values[b]

RECURSIVE FirstInsertions(_, _)
\* the strings of appended not in seen, each at its first place
FirstInsertions(appended, seen) ==
    IF Len(appended) = 0 THEN <<>>
    ELSE IF Head(appended) \in seen THEN FirstInsertions(Tail(appended), seen)
    ELSE <<Head(appended)>> \o FirstInsertions(Tail(appended), seen \cup {Head(appended)})

\* C10: after any appends to a value set, values has no duplicate, holds the
\* appended strings in the order of their first insertion, existMap holds
\* exactly the elements of values, and an append of a string already present
\* leaves the set as it is.
C10_ValueSet ==
    /\ NoDuplicate(vs.values)
    /\ vs.values = FirstInsertions(log, {})
    /\ vs.existMap = Range(vs.values)
    /\ \A v \in Range(vs.values) : append(vs, v) = vs

\* a string was appended a second time after another one
C10_Witness ==
    /\ Len(log) = 3 /\ log[1] = log[3] /\ log[1] # log[2]
    /\ Len(vs.values) = 2

\* the run a, a + 1, ..., b
Run(a, b) == [j \in 1..(b - a + 1) |-> a + j - 1]

\* each number of nums is the one before it plus one
Consecutive(nums) == \A j \in 1..(Len(nums) - 1) : nums[j] + 1 = nums[j + 1]

\* C11: the integer-range transform turns "a-b" with a < b into the run a..b
\* and gives the null value for every other string whose numbers are not
\* consecutive ascending, such as "1,3" and "5-1"
C11_AscendingSequenceLaw ==
    (stage = "done" /\ arg.value.k = "string") =>
        IF arg.sep = "-" /\ Len(arg.nums) = 2 /\ arg.nums[1] < arg.nums[2]
        THEN ret = IntsV(Run(arg.nums[1], arg.nums[2]))
        ELSE IF Consecutive(arg.nums) THEN ret = IntsV(arg.nums) ELSE ret = NilV

RECURSIVE AfterRules(_, _, _)
\* the states a call running alone can be in after the rules k, k + 1, ...
\* of hs, from state s
AfterRules(s, hs, k) ==
    IF s.fault # "nil" \/ k > Len(hs) THEN {s}
    ELSE UNION {AfterRules(s2, hs, k + 1) : s2 \in Iteration(s, hs[k])}

RECURSIVE AssembleAll(_, _, _)
RECURSIVE AssembleNext(_, _, _, _, _)
\* the Results a call running alone can return from state s, the fields todo
\* still to be assembled
AssembleAll(res0, s, todo) ==
    IF todo = {} THEN {[res0 EXCEPT !.Title = clean_title(RawTitle(s))]}
    ELSE UNION {AssembleNext(res0, s, todo, field, Assign(res0, field, s.result[field].value))
                : field \in todo}

AssembleNext(res0, s, todo, field, a) ==
    IF a.fault # "nil" THEN {[res0 EXCEPT !.err = a.fault]}
    ELSE AssembleAll(a.r, s, todo \ {field})

\* the Results the call p(title) can return when it runs alone
AloneResults(title, p) ==
    UNION {IF s.fault # "nil" THEN {[ZeroResult EXCEPT !.err = s.fault]}
           ELSE AssembleAll(ZeroResult, s, DOMAIN s.result)
           : s \in AfterRules(Begin(title), HandlersOf(p), 1)}

\* a step of one call writes nothing of the other call
OwnWrites ==
    /\ peer' # peer => UNCHANGED <<input, parser, st, i, pc, visited, r>>
    /\ <<input, parser, st, i, pc, visited, r>>' # <<input, parser, st, i, pc, visited, r>>
           => peer' = peer

C13_BracketsBalanced ==
    stage = "done" =>
        \A j \in 1..Len(brackets) :
            /\ Count(ret[4], brackets[j][1]) = Count(ret[4], brackets[j][2])
            /\ Count(ret[2], brackets[j][1]) # Count(ret[2], brackets[j][2])
                  => Count(ret[4], brackets[j][1]) + Count(ret[4], brackets[j][2]) = 0

\* "Title [Group" has lost its "[" at the balancing step
C13_Witness ==
    /\ stage = "done" /\ arg = BracketTitle
    /\ Count(ret[2], "[") = 1 /\ Count(ret[2], "]") = 0
    /\ ret[4] = <<"T", "i", "t", "l", "e", " ", "G", "r", "o", "u", "p">>

\* C14: clean_title replaces every dot by a space exactly when the title at
\* that step holds a dot and no space; a title that holds a space there
\* keeps its dots
C14_DotsToSpaces ==
    Len(ret) >= 2 /\ stage \in {"dotted", "balanced", "done"} =>
        IF (\E j \in 1..Len(ret[1]) : ret[1][j] = ".")
           /\ ~(\E j \in 1..Len(ret[1]) : ret[1][j] = " ")
        THEN /\ Len(ret[2]) = Len(ret[1])
             /\ \A j \in 1..Len(ret[1]) :
                    ret[2][j] = IF ret[1][j] = "." THEN " " ELSE ret[1][j]
        ELSE ret[2] = ret[1]

\* "The.Movie.2023.1080p" has become "The Movie 2023 1080p"
C14_Witness ==
    /\ stage = "done" /\ arg = DottedTitle
    /\ ret[4] = <<"T", "h", "e", " ", "M", "o", "v", "i", "e", " ", "2", "0", "2", "3", " ", "1", "0", "8", "0", "p">>

(***************************************************************************)
(* The rule loop of parse, rule by rule (ptt.go, lines 168-293)            *)
(***************************************************************************)

\* the step of ParseRule: the rule it runs is the rule i of the table
RuleStep == pc = "rules" /\ i' = i + 1

\* the rule a step of ParseRule runs
Rule == HandlersOf(parser)[i]

\* the rule the last step of ParseRule ran
LastRule == HandlersOf(parser)[i - 1]

\* the pattern rule h takes one of the continue statements of lines 176, 182
\* and 185 from state s
Passes(s, h) ==
    \/ h.Field \in DOMAIN s.result /\ ~h.KeepMatching
    \/ Len(FindStringSubmatchIndex(h.Pattern, s.title)) = 0
    \/ ~ValidateMatch(h.ValidateMatch, s.title, FindStringSubmatchIndex(h.Pattern, s.title))

\* C15: a pattern rule that is ineligible, finds no match, is rejected by
\* its validator or is discarded by a skip policy leaves the title, the
\* field-state map and the boundary as they were and runs neither its
\* processor nor its transform
C15_DiscardedRuleFrame ==
    [][RuleStep /\ Rule.Pattern.ng >= 0 /\ (Passes(st, Rule) \/ st'.last.skipped)
          => /\ st'.title = st.title
             /\ st'.result = st.result
             /\ st'.endOfTitle = st.endOfTitle
             /\ ~st'.last.ranProcess
             /\ ~st'.last.ranTransform]_vars

\* group_3536 has found "[Grp]" in the title of a call whose group had been
\* resolved by group_1534, and has left the group as it was
C15_Witness ==
    /\ i > 1 /\ pc # "done"
    /\ LastRule = group_3536
    /\ Len(FindStringSubmatchIndex(group_3536.Pattern, st.title)) > 0
    /\ "group" \in DOMAIN st.result
    /\ st.result["group"].value = StrV(<<"G", "R", "O", "U", "P">>)
    /\ ~st.last.finalized

\* the pattern rule h has a candidate match in state s: it is eligible, its
\* pattern matches and its validator accepts the match
Candidate(s, h) == h.Pattern.ng >= 0 /\ ~Passes(s, h)

\* idxs[0] of the candidate of rule h in state s
CandidateStart(s, h) == FindStringSubmatchIndex(h.Pattern, s.title)[1]

\* C16 as stated: a skip-if-first rule discards its candidate when another
\* field has a recorded match at or before the candidate's start offset and
\* the rule's own field has no prior match, and keeps it in every other
\* situation
C16_SkipIfFirst ==
    [][RuleStep /\ Rule.SkipIfFirst /\ Rule.SkipIfBefore = <<>> /\ Candidate(st, Rule)
          => (st'.last.skipped <=>
                 /\ \E f \in DOMAIN st.result \ {Rule.Field} :
                        st.result[f].mIndex <= CandidateStart(st, Rule)
                 /\ Rule.Field \notin DOMAIN st.result)]_vars

\* C16: a skip-if-first rule discards its candidate when other fields have
\* recorded matches and none of them is at or before the candidate's start
\* offset, and keeps it in every other situation
C16_SkipIfFirstNoneBefore ==
    [][RuleStep /\ Rule.SkipIfFirst /\ Rule.SkipIfBefore = <<>> /\ Candidate(st, Rule)
          => (st'.last.skipped <=>
                 /\ DOMAIN st.result \ {Rule.Field} # {}
                 /\ \A f \in DOMAIN st.result \ {Rule.Field} :
                        st.result[f].mIndex > CandidateStart(st, Rule))]_vars

\* the region rule has discarded "R5" at offset 0 of "R5.", the year being
\* recorded at offset 3
C16_Witness ==
    /\ i > 1 /\ pc # "done"
    /\ LastRule = region_816
    /\ st.last.skipped
    /\ st.title = <<"R", "5", ".">>
    /\ DOMAIN st.result = {"year"} /\ st.result["year"].mIndex = 3

\* C17: a rule that removes text from the title deletes exactly the recorded
\* matched text at the recorded offset: the title holds the matched text at
\* that offset before the splice, the new title is the old one without that
\* span, and it is shorter by the length of the matched text
C17_RemovalSplicesMatch ==
    [][RuleStep /\ st'.last.finalized /\ st'.last.remove
          => /\ Sub(st.title, st'.last.mIndex, st'.last.mIndex + Len(st'.last.mValue))
                    = st'.last.mValue
             /\ st'.title = Sub(st.title, 0, st'.last.mIndex)
                                \o From(st.title, st'.last.mIndex + Len(st'.last.mValue))
             /\ Len(st'.title) = Len(st.title) - Len(st'.last.mValue)]_vars

\* the last step of ParseRule set endOfTitle at line 283: skip is the
\* skip-from-title that held for it
BoundarySet(skip) ==
    ~skip /\ st'.last.mIndex # 0 /\ st'.last.mIndex < st.endOfTitle

\* C18 as stated: the boundary changes to a rule's match offset exactly when
\* the rule is not marked skip-from-title and the offset is nonzero and
\* smaller than the boundary; a rule not marked skip-from-title changes the
\* boundary in no other way; the boundary never increases
C18_BoundaryOfMarkedRules ==
    [][/\ st'.endOfTitle <= st.endOfTitle
       /\ RuleStep =>
          /\ ~st'.last.finalized => st'.endOfTitle = st.endOfTitle
          /\ st'.last.finalized =>
                 /\ BoundarySet(Rule.SkipFromTitle) => st'.endOfTitle = st'.last.mIndex
                 /\ ~BoundarySet(Rule.SkipFromTitle) /\ ~Rule.SkipFromTitle
                        => st'.endOfTitle = st.endOfTitle]_vars

\* C18: the boundary changes to the offset recorded for a rule's match
\* exactly when skip-from-title does not hold for the match (the rule is not
\* marked skip-from-title and the matched text is not part of the leading
\* bracket of the title) and the offset is nonzero and smaller than the
\* boundary; a match for which skip-from-title does not hold changes the
\* boundary in no other way; the boundary never increases
C18_Boundary ==
    [][/\ st'.endOfTitle <= st.endOfTitle
       /\ RuleStep =>
          /\ ~st'.last.finalized => st'.endOfTitle = st.endOfTitle
          /\ st'.last.finalized =>
                 /\ BoundarySet(st'.last.skipFromTitle) => st'.endOfTitle = st'.last.mIndex
                 /\ ~BoundarySet(st'.last.skipFromTitle) /\ ~st'.last.skipFromTitle
                        => st'.endOfTitle = st.endOfTitle
                 /\ st'.last.skipFromTitle
                        => st'.endOfTitle \in {st.endOfTitle,
                                               st.endOfTitle - Len(st'.last.mValue)}]_vars

\* the resolution rule, not marked skip-from-title, has removed "1080p" at
\* offset 1 of "[1080p] Movie.2023" and endOfTitle went from 18 to 13
C18_Witness ==
    /\ i > 1 /\ pc # "done" /\ input = BracketedTitle
    /\ LastRule = resolution_419 /\ ~resolution_419.SkipFromTitle
    /\ st.last.finalized /\ st.last.skipFromTitle
    /\ st.last.mIndex = 1
    /\ st.endOfTitle = 13

\* the last step of ParseRule removed a match for which skip-from-title held
RemovedSkipFromTitle ==
    RuleStep /\ st'.last.finalized /\ st'.last.remove /\ st'.last.skipFromTitle

\* the text from the boundary on is the same after the step as before it
SameCharacter == From(st'.title, st'.endOfTitle) = From(st.title, st.endOfTitle)

\* C19 as stated: whenever a match is both removed and skip-from-title the
\* boundary goes down by the length of the removed text and designates the
\* same character of the title after the removal as before it
C19_RemovedRetractsBoundary ==
    [][RemovedSkipFromTitle
          => /\ st'.endOfTitle = st.endOfTitle - Len(st'.last.mValue)
             /\ SameCharacter]_vars

\* C19: whenever a match is both removed and skip-from-title, the boundary
\* goes down by the length of the removed text when the recorded offset is
\* below the boundary, and then designates the same character as before if
\* the removed text ended at or before the boundary; it stays as it was
\* when the recorded offset is at or after the boundary
C19_RemovedBelowRetractsBoundary ==
    [][RemovedSkipFromTitle
          => IF st'.last.mIndex < st.endOfTitle
             THEN /\ st'.endOfTitle = st.endOfTitle - Len(st'.last.mValue)
                  /\ st'.last.mIndex + Len(st'.last.mValue) <= st.endOfTitle
                         /\ st.endOfTitle <= Len(st.title)
                         => SameCharacter
             ELSE st'.endOfTitle = st.endOfTitle]_vars

\* the year rule has removed "[2023]" at offset 0 of "[2023] Movie..x264",
\* below the boundary 13, and the boundary 7 designates ".x264" as 13 did
C19_Witness ==
    /\ i > 1 /\ pc # "done" /\ input = YearBracketTitle
    /\ LastRule = year_554
    /\ st.last.finalized /\ st.last.remove /\ st.last.skipFromTitle
    /\ st.last.mIndex = 0 /\ Len(st.last.mValue) = 6
    /\ st.endOfTitle = 7
    /\ From(st.title, st.endOfTitle) = <<".", "x", "2", "6", "4">>

\* every entry of the field-state map s.result has a non-null value
NoNullEntry(s) == \A f \in DOMAIN s.result : s.result[f].value.k # "nil"

\* C20: before the first rule and after each rule the field-state map holds
\* no entry with a null value; a rule deletes no entry but that of its own
\* field, and only after its processor or its transform ran and left the
\* value null
C20_NoNullEntry ==
    [][RuleStep =>
          /\ NoNullEntry(st)
          /\ st'.fault = "nil" => NoNullEntry(st')
          /\ \A f \in DOMAIN st.result \ DOMAIN st'.result :
                 /\ f = Rule.Field
                 /\ st'.last.ranProcess \/ st'.last.ranTransform]_vars

\* volumes_1551 has matched "Vol.3-1", its transform has left the value
\* null, and the map holds no entry for the volumes
C20_Witness ==
    /\ i > 1 /\ pc # "done" /\ input = VolumeRangeTitle
    /\ LastRule = volumes_1551
    /\ st.last.ranTransform /\ ~st.last.finalized
    /\ "volumes" \notin DOMAIN st.result
    /\ st.title = VolumeRangeTitle

\* the pattern rule of the last step of ParseRule ran its transform, which
\* rejected the match: it left the value null or the empty string
TransformRejected ==
    /\ RuleStep /\ Rule.Pattern.ng >= 0 /\ st'.last.ranTransform
    /\ \/ Rule.Field \notin DOMAIN st'.result
       \/ st'.result[Rule.Field].value = StrV(<<>>)

\* C21: a rule whose transform rejects its match leaves no entry for the
\* field in the field-state map, leaves the title and the boundary as they
\* were and raises no error
C21_SoftRejection ==
    [][TransformRejected
          => /\ Rule.Field \notin DOMAIN st'.result
             /\ st'.title = st.title
             /\ st'.endOfTitle = st.endOfTitle
             /\ st'.fault = "nil"]_vars

\* the step of ParseRule reaches line 273 for a field an earlier rule has
\* processed, with a rule that is not keep-matching and a field that is not
\* multi-valued: a pattern rule would have left at line 176
ReachesReSkip ==
    /\ RuleStep /\ Rule.Pattern.ng < 0
    /\ Rule.Field \in DOMAIN st.result /\ st.result[Rule.Field].processed
    /\ ~Rule.KeepMatching /\ ~has_value_set(Rule.Field)
    /\ Rule.Field \in DOMAIN st'.result /\ st'.fault = "nil"

C23_RemoveFlagTransient ==
    [][RuleStep /\ st'.fault = "nil"
          => /\ \A f \in DOMAIN st'.result : ~st'.result[f].remove
             /\ st'.last.finalized
                    => Rule.Field \in DOMAIN st'.result
                       /\ st'.result[Rule.Field].processed]_vars

\* a is the beginning of b
IsPrefix(a, b) == Len(a) <= Len(b) /\ SubSeq(b, 1, Len(a)) = a

\* the step of ParseRule is a match of a keep-matching rule for a field
\* that had a value
KeepMatchingStep ==
    /\ RuleStep /\ Rule.KeepMatching /\ Candidate(st, Rule) /\ ~st'.last.skipped
    /\ Rule.Field \in DOMAIN st.result
    /\ st'.fault = "nil"

\* C24 as stated: after a match of a keep-matching rule for a field that had
\* a value, a multi-valued field has its earlier members in their order
\* and any other field has its earlier value
C24_KeepMatchingAccumulates ==
    [][KeepMatchingStep
          => /\ Rule.Field \in DOMAIN st'.result
             /\ IF Rule.Field \in value_set_field_map
                THEN /\ st'.result[Rule.Field].value.k = "*value_set"
                     /\ IsPrefix(st.result[Rule.Field].value.set.values,
                                 st'.result[Rule.Field].value.set.values)
                ELSE st'.result[Rule.Field].value = st.result[Rule.Field].value]_vars

\* C24: after a match of a keep-matching rule for a field that had a value,
\* a multi-valued field has its earlier members in their order; the entry of
\* any other field records the new match, whose value replaces the earlier
\* one
C24_KeepMatchingSetAccumulates ==
    [][KeepMatchingStep
          => IF Rule.Field \in value_set_field_map
             THEN /\ Rule.Field \in DOMAIN st'.result
                  /\ st'.result[Rule.Field].value.k = "*value_set"
                  /\ IsPrefix(st.result[Rule.Field].value.set.values,
                              st'.result[Rule.Field].value.set.values)
             ELSE Rule.Field \in DOMAIN st'.result
                     => st'.result[Rule.Field].mValue
                            = Sub(st.title, CandidateStart(st, Rule),
                                  FindStringSubmatchIndex(Rule.Pattern, st.title)[2])]_vars

\* audio_1475 has added "AC3" to the audio of "Movie.DD.AC3" after "DD"
C24_Witness ==
    /\ i > 1 /\ pc # "done" /\ input = AudiosTitle
    /\ LastRule = audio_1475
    /\ st.last.finalized
    /\ st.result["audio"].value.set.values = <<<<"D", "D">>, <<"A", "C", "3">>>>

\* C25: a rule with a skip-if-before list discards its candidate exactly
\* when a field of the list has a recorded match at an offset greater than
\* the start of the candidate; a listed field without a recorded match
\* causes no discard
C25_SkipIfBefore ==
    [][RuleStep /\ ~Rule.SkipIfFirst /\ Rule.SkipIfBefore # <<>> /\ Candidate(st, Rule)
          => (st'.last.skipped <=>
                 \E j \in 1..Len(Rule.SkipIfBefore) :
                     /\ Rule.SkipIfBefore[j] \in DOMAIN st.result
                     /\ st.result[Rule.SkipIfBefore[j]].mIndex
                            > CandidateStart(st, Rule))]_vars

\* seasons_1866 has discarded "1.02 - " at offset 0 of "1.02 - Movie.", the
\* year being recorded at offset 13
C25_Witness ==
    /\ i > 1 /\ pc # "done" /\ input = SeasonYearTitle
    /\ LastRule = seasons_1866
    /\ st.last.skipped
    /\ st.result["year"].mIndex = 13
    /\ "seasons" \notin DOMAIN st.result

\* the end year of the drawn value, an end of two digits taken in the
\* century of the start
ClaimedEnd == IF arg.digits = 2 THEN arg.start - (arg.start % 100) + arg.end ELSE arg.end

\* C26: to_year leaves a value of one digit run as it is; for a start and
\* an end, an end e of two digits being start - (start mod 100) + e, it
\* leaves "start-end" when the end is greater than the start and the empty
\* string otherwise
C26_YearRange ==
    stage = "done" =>
        IF arg.digits = 0 THEN ret = StrV(arg.value)
        ELSE IF ClaimedEnd > arg.start
        THEN ret = StrV(Itoa(arg.start) \o <<"-">> \o Itoa(ClaimedEnd))
        ELSE ret = StrV(<<>>)

\* "2019 - 23" has become "2019-2023"
C26_Witness ==
    /\ stage = "done"
    /\ arg.value = <<"2", "0", "1", "9", " ", "-", " ", "2", "3">>
    /\ ret = StrV(<<"2", "0", "1", "9", "-", "2", "0", "2", "3">>)

\* the group the map holds was matched from a leading segment "[...]" of the
\* title
BracketGroup(s) ==
    /\ "group" \in DOMAIN s.result
    /\ s.result["group"].mIndex = 0
    /\ Len(s.result["group"].mValue) > 2
    /\ Head(s.result["group"].mValue) = "["
    /\ s.result["group"].mValue[Len(s.result["group"].mValue)] = "]"
    /\ s.result["group"].value
           = StrV(Sub(s.result["group"].mValue, 1, Len(s.result["group"].mValue) - 1))

\* another field has a recorded match inside the span of that bracket
MatchInBracket(s) ==
    \E f \in DOMAIN s.result \ {"group"} :
        /\ s.result[f].mIndex >= 1
        /\ s.result[f].mIndex < Len(s.result["group"].mValue)

\* C27: when the group was matched from a leading bracket, the group
\* processor leaves its content as the group if and only if no other field
\* has a recorded match inside the span of the bracket, and leaves the empty
\* group otherwise; the Result has the group the processor left
C27_BracketGroup ==
    [][/\ RuleStep /\ Rule = group_3544 /\ BracketGroup(st)
          => /\ "group" \in DOMAIN st'.result
             /\ st'.result["group"].value
                    = IF MatchInBracket(st) THEN StrV(<<>>) ELSE st.result["group"].value
       /\ pc = "assemble" /\ pc' = "done" /\ "group" \in DOMAIN st.result /\ r'.err = "nil"
          => StrV(r'.Group) = st.result["group"].value]_vars

\* "[Grp 1080p] Movie" has the empty group: the resolution is recorded at
\* offset 5 of the bracket "[Grp ]"
C27_Witness ==
    /\ pc = "done" /\ input = GroupResolutionTitle /\ parser = FullParser
    /\ st.result["resolution"].mIndex = 5
    /\ st.result["group"].value = StrV(<<>>)
    /\ r.Group = <<>> /\ r.Resolution = <<"1", "0", "8", "0", "p">>

\* the two calls hold the same working title, boundary and field values
\* and made the same decision at the last rule
SameCall(a, b) ==
    /\ a.title = b.title
    /\ a.endOfTitle = b.endOfTitle
    /\ a.fault = b.fault
    /\ a.last.finalized = b.last.finalized
    /\ DOMAIN a.result = DOMAIN b.result
    /\ \A f \in DOMAIN a.result : a.result[f].value = b.result[f].value

\* C28: given the same rules and the same title, the Kotlin parse and the Go
\* parse make the same fire-or-skip decision at every rule and hold the same
\* working title, the same boundary and the same field values after it
C28_FaithfulPort == SameCall(kotlin, st)

\* C29: in the Result of a parser built by GetPartialParser, every field
\* that was not requested, other than the title, has its zero value
C29_UnrequestedZero ==
    pc = "done" /\ parser.kind = "GetPartialParser"
        => \A f \in DOMAIN ResultField \ Range(parser.fieldNames) :
               r[ResultField[f]] = ZeroResult[ResultField[f]]

\* the end b of the slice title[0:b] for the boundary endOfTitle
SliceEnd(title, endOfTitle) ==
    {b \in 0..Len(title) : \/ b = endOfTitle
                           \/ endOfTitle < 0 /\ b = 0
                           \/ endOfTitle > Len(title) /\ b = Len(title)}

\* C30: the string handed to clean_title is title[0:b] of the final working
\* title with 0 <= b <= len(title): b is the boundary, 0 when the boundary
\* is below 0 and len(title) when the title is shorter than the boundary
C30_TitleSlice ==
    [][pc = "assemble" /\ pc' = "done" /\ r'.err = "nil"
         => /\ SliceEnd(st.title, st.endOfTitle) # {}
            /\ \A b \in SliceEnd(st.title, st.endOfTitle) :
                   r'.Title = clean_title(Sub(st.title, 0, b))]_vars

\* "[HE[2023]VC]": the year is removed at offset 3, then the codec "HEVC"
\* inside the leading bracket retracts the boundary 3 to -1
C30_Witness ==
    /\ pc = "done" /\ input = JoinedCodecTitle /\ parser = FullParser
    /\ st.endOfTitle = -1 /\ st.title = <<"[", "]">>
    /\ r.err = "nil" /\ r.Title = <<>> /\ r.Codec = <<"h", "e", "v", "c">>

====
